---- MODULE Spec2Model ----
(***************************************************************************)
(* A model of the RAC temporal compiler (src/src/rac/compiler.py): a       *)
(* Compiler instance is constructed over a list of parsed modules and      *)
(* compile(as_of) collects the declarations, resolves the temporal layers  *)
(* and the amendments, computes the dependency sets and sorts the          *)
(* variables topologically.                                                *)
(*                                                                         *)
(* Conventions.  A path is the sequence of its identifier segments, so     *)
(* "gov/a" is <<"gov", "a">> and the bare identifier "k" is <<"k">>; a     *)
(* Python dict is the sequence of its [key, value] items in insertion      *)
(* order; an optional value is <<>> (None) or <<x>>.                       *)
(***************************************************************************)
EXTENDS Integers, Sequences, FiniteSets, TLC

VARIABLES modules, set_order, schema, var_decls, amendments, as_of, outcome, compiles,
          data, exec_result, reform_modules, baseline, reform, returned, errors,
          cut_call, cut_result,
          source, parsed,
          cache_dir, calls

vars == <<modules, set_order, schema, var_decls, amendments, as_of, outcome, compiles,
          data, exec_result, reform_modules, baseline, reform, returned, errors,
          cut_call, cut_result,
          source, parsed,
          cache_dir, calls>>

----------------------------------------------------------------------------
(* Bounds of the model. *)

MaxDate == 2

MaxValues == 2

MaxModules == 2

MaxDecls == 2

MaxCompiles == 2

Dates == 1..MaxDate

----------------------------------------------------------------------------
(* Optional values and insertion-ordered dicts. *)

None == <<>>

Some(x) == <<x>>

DictHas(d, k) == \E i \in DOMAIN d : d[i].key = k

DictGet(d, k) == d[CHOOSE i \in DOMAIN d : d[i].key = k].value

DictSet(d, k, v) ==
    IF DictHas(d, k)
    THEN [i \in DOMAIN d |-> IF d[i].key = k THEN [key |-> k, value |-> v] ELSE d[i]]
    ELSE Append(d, [key |-> k, value |-> v])

KeySet(d) == {d[i].key : i \in DOMAIN d}

----------------------------------------------------------------------------
(* AST nodes (ast.py). *)

Literal(v) == [type |-> "literal", value |-> v]

Var(p) == [type |-> "var", path |-> p]

BinOp(o, l, r) == [type |-> "binop", op |-> o, left |-> l, right |-> r]

UnaryOp(o, e) == [type |-> "unaryop", op |-> o, operand |-> e]

Call(f, a) == [type |-> "call", func |-> f, args |-> a]

FieldAccess(o, f) == [type |-> "field_access", obj |-> o, field |-> f]

Match(s, c, d) == [type |-> "match", subject |-> s, cases |-> c, default |-> d]

Cond(c, t, e) == [type |-> "cond", condition |-> c, then_expr |-> t, else_expr |-> e]

TemporalValue(s, e, x) == [start |-> s, end |-> e, expr |-> x]

VariableDecl(p, e, v) == [path |-> p, entity |-> e, values |-> v]

AmendDecl(t, v) == [target |-> t, values |-> v]

EntityDecl(n, f, r) == [name |-> n, fields |-> f, relations |-> r]

Module(e, v, a) == [entities |-> e, variables |-> v, amendments |-> a]

----------------------------------------------------------------------------
(* Schema (schema.py) and the compiler's records (compiler.py). *)

Field(n, t) == [name |-> n, dtype |-> t]

Relation(n, t, m) == [name |-> n, target |-> t, many |-> m]

Entity(n, f, r) == [name |-> n, fields |-> f, relations |-> r]

Schema == [entities |-> <<>>]

ResolvedVar(p, e, x, d) == [path |-> p, entity |-> e, expr |-> x, deps |-> d]

IR(s, v, o) == [schema_ |-> s, variables |-> v, order |-> o]

NoError == [kind |-> "", path |-> <<>>, at |-> <<>>]

CompileError(k, p, t) == [kind |-> k, path |-> p, at |-> t]

----------------------------------------------------------------------------
(* Schema.add_entity and Compiler._collect_entities. *)

add_entity(s, entity) == [s EXCEPT !.entities = DictSet(@, entity.name, entity)]

RECURSIVE EntityFields(_, _, _)
EntityFields(fields, i, acc) ==
    IF i > Len(fields) THEN acc
    ELSE EntityFields(fields, i + 1,
                      DictSet(acc, fields[i][1], Field(fields[i][1], fields[i][2])))

RECURSIVE EntityRelations(_, _, _)
EntityRelations(rels, i, acc) ==
    IF i > Len(rels) THEN acc
    ELSE EntityRelations(rels, i + 1,
                         DictSet(acc, rels[i][1],
                                 Relation(rels[i][1], rels[i][2], rels[i][3])))

RECURSIVE CollectEntitiesFrom(_, _, _)
CollectEntitiesFrom(decls, i, s) ==
    IF i > Len(decls) THEN s
    ELSE CollectEntitiesFrom(decls, i + 1,
            add_entity(s, Entity(decls[i].name,
                                 EntityFields(decls[i].fields, 1, <<>>),
                                 EntityRelations(decls[i].relations, 1, <<>>))))

_collect_entities(s, module) == CollectEntitiesFrom(module.entities, 1, s)

----------------------------------------------------------------------------
(* Compiler._collect_variables and Compiler._collect_amendments.  The      *)
(* state st carries the instance's fields and the error raised, if any.    *)

(* Variant: a redeclared path replaces the earlier declaration. *)
RECURSIVE CollectVariablesUnchecked(_, _, _)
CollectVariablesUnchecked(decls, i, st) ==
    IF i > Len(decls) THEN st
    ELSE CollectVariablesUnchecked(decls, i + 1,
            [st EXCEPT !.var_decls = DictSet(@, decls[i].path, decls[i])])

RECURSIVE CollectVariablesFrom(_, _, _)
CollectVariablesFrom(decls, i, st) ==
    IF i > Len(decls) THEN st
    ELSE IF DictHas(st.var_decls, decls[i].path)
         THEN [st EXCEPT !.error = CompileError("duplicate variable", decls[i].path, None)]
         ELSE CollectVariablesFrom(decls, i + 1,
                 [st EXCEPT !.var_decls = DictSet(@, decls[i].path, decls[i])])

_collect_variables(st, module) == CollectVariablesFrom(module.variables, 1, st)

(* Variant: a module's amendments are put before those collected so far. *)
CollectAmendmentsInFront(st, module) ==
    [st EXCEPT !.amendments = module.amendments \o @]

_collect_amendments(st, module) ==
    [st EXCEPT !.amendments = @ \o module.amendments]

RECURSIVE CollectModulesFrom(_, _, _)
CollectModulesFrom(mods, i, st) ==
    IF i > Len(mods) THEN st
    ELSE LET s1 == [st EXCEPT !.schema = _collect_entities(@, mods[i])]
             s2 == _collect_variables(s1, mods[i])
         IN IF s2.error # NoError THEN s2
            ELSE CollectModulesFrom(mods, i + 1, _collect_amendments(s2, mods[i]))

----------------------------------------------------------------------------
(* Compiler._pick_temporal and Compiler._resolve_temporal. *)

(* Variant: the end date excluded. *)
AppliesEndExcluded(tv, T) == tv.start <= T /\ (tv.end = None \/ T < tv.end[1])

Applies(tv, T) == tv.start <= T /\ (tv.end = None \/ T <= tv.end[1])

(* Variant: the first value in force is kept. *)
RECURSIVE PickFromFirstWins(_, _, _, _)
PickFromFirstWins(values, T, i, result) ==
    IF i > Len(values) THEN result
    ELSE PickFromFirstWins(values, T, i + 1,
                           IF Applies(values[i], T) /\ result = None
                           THEN Some(values[i].expr) ELSE result)

RECURSIVE PickFrom(_, _, _, _)
PickFrom(values, T, i, result) ==
    IF i > Len(values) THEN result
    ELSE PickFrom(values, T, i + 1,
                  IF Applies(values[i], T) THEN Some(values[i].expr) ELSE result)

_pick_temporal(values, T) == PickFrom(values, T, 1, None)

(* Variant: a variable with no value in force is left out. *)
RECURSIVE ResolveDeclsSkipping(_, _, _, _)
ResolveDeclsSkipping(decls, T, i, rs) ==
    IF i > Len(decls) THEN rs
    ELSE LET path == decls[i].key
             decl == decls[i].value
             expr == _pick_temporal(decl.values, T)
         IN ResolveDeclsSkipping(decls, T, i + 1,
               IF expr = None THEN rs
               ELSE [rs EXCEPT !.resolved =
                        DictSet(@, path, ResolvedVar(path, decl.entity, expr[1], {}))])

RECURSIVE ResolveDecls(_, _, _, _)
ResolveDecls(decls, T, i, rs) ==
    IF i > Len(decls) THEN rs
    ELSE LET path == decls[i].key
             decl == decls[i].value
             expr == _pick_temporal(decl.values, T)
         IN IF expr = None
            THEN [rs EXCEPT !.error = CompileError("no value", path, Some(T))]
            ELSE ResolveDecls(decls, T, i + 1,
                    [rs EXCEPT !.resolved =
                        DictSet(@, path, ResolvedVar(path, decl.entity, expr[1], {}))])

(* Variant: the target is looked up only for an amendment in force. *)
RECURSIVE ApplyAmendmentsInForce(_, _, _, _)
ApplyAmendmentsInForce(amends, T, i, rs) ==
    IF i > Len(amends) THEN rs
    ELSE LET expr == _pick_temporal(amends[i].values, T)
         IN IF expr = None THEN ApplyAmendmentsInForce(amends, T, i + 1, rs)
            ELSE IF ~DictHas(rs.resolved, amends[i].target)
            THEN [rs EXCEPT !.error =
                     CompileError("amending unknown variable", amends[i].target, None)]
            ELSE ApplyAmendmentsInForce(amends, T, i + 1,
                    [rs EXCEPT !.resolved =
                        DictSet(@, amends[i].target,
                                [DictGet(rs.resolved, amends[i].target)
                                    EXCEPT !.expr = expr[1]])])

RECURSIVE ApplyAmendments(_, _, _, _)
ApplyAmendments(amends, T, i, rs) ==
    IF i > Len(amends) THEN rs
    ELSE IF ~DictHas(rs.resolved, amends[i].target)
         THEN [rs EXCEPT !.error =
                  CompileError("amending unknown variable", amends[i].target, None)]
         ELSE LET expr == _pick_temporal(amends[i].values, T)
              IN ApplyAmendments(amends, T, i + 1,
                    IF expr # None
                    THEN [rs EXCEPT !.resolved =
                            DictSet(@, amends[i].target,
                                    [DictGet(rs.resolved, amends[i].target)
                                        EXCEPT !.expr = expr[1]])]
                    ELSE rs)

(* Variant: a declaration is resolved over its own values followed by the *)
(* values of the amendments to it.                                        *)
RECURSIVE AmendedValues(_, _, _)
AmendedValues(amends, path, i) ==
    IF i > Len(amends) THEN <<>>
    ELSE (IF amends[i].target = path THEN amends[i].values ELSE <<>>)
         \o AmendedValues(amends, path, i + 1)

ResolveAmendedFirst(decls, amends, T) ==
    LET merged == [k \in DOMAIN decls |->
                      [key |-> decls[k].key,
                       value |-> [decls[k].value EXCEPT
                                     !.values = @ \o AmendedValues(amends, decls[k].key, 1)]]]
        base == ResolveDecls(merged, T, 1, [resolved |-> <<>>, error |-> NoError])
    IN IF base.error # NoError THEN base
       ELSE ApplyAmendments(amends, T, 1, base)

_resolve_temporal(decls, amends, T) ==
    LET base == ResolveDecls(decls, T, 1, [resolved |-> <<>>, error |-> NoError])
    IN IF base.error # NoError THEN base
       ELSE ApplyAmendments(amends, T, 1, base)

----------------------------------------------------------------------------
(* Compiler._find_deps and Compiler._walk_deps. *)

(* Variant: every path counts as a dependency, a bare identifier too. *)
HasSegment(path) == Len(path) > 0

HasSlash(path) == Len(path) > 1

RECURSIVE _walk_deps(_, _)
RECURSIVE WalkArgs(_, _, _)
RECURSIVE WalkCases(_, _, _)

_walk_deps(expr, deps) ==
    CASE expr.type = "literal" -> deps
      [] expr.type = "var" ->
            IF HasSlash(expr.path) THEN deps \cup {expr.path} ELSE deps
      [] expr.type = "binop" -> _walk_deps(expr.right, _walk_deps(expr.left, deps))
      [] expr.type = "unaryop" -> _walk_deps(expr.operand, deps)
      [] expr.type = "call" -> WalkArgs(expr.args, 1, deps)
      [] expr.type = "field_access" -> _walk_deps(expr.obj, deps)
      [] expr.type = "match" ->
            LET d1 == WalkCases(expr.cases, 1, _walk_deps(expr.subject, deps))
            IN IF expr.default # None THEN _walk_deps(expr.default[1], d1) ELSE d1
      [] expr.type = "cond" ->
            _walk_deps(expr.else_expr,
                       _walk_deps(expr.then_expr, _walk_deps(expr.condition, deps)))

WalkArgs(args, i, deps) ==
    IF i > Len(args) THEN deps
    ELSE WalkArgs(args, i + 1, _walk_deps(args[i], deps))

WalkCases(cases, i, deps) ==
    IF i > Len(cases) THEN deps
    ELSE WalkCases(cases, i + 1, _walk_deps(cases[i][2], deps))

_find_deps(expr) == _walk_deps(expr, {})

ComputeDeps(resolved) ==
    [i \in DOMAIN resolved |->
        [resolved[i] EXCEPT !.value.deps = _find_deps(resolved[i].value.expr)]]

----------------------------------------------------------------------------
(* Compiler._topo_sort.  A Python set of strings is iterated in an order   *)
(* that depends on the string hashing of the running process, so the order *)
(* in which the dependencies of a variable are visited is a parameter,     *)
(* ord: a sequence listing every '/'-path once.                            *)

IterOrder(S, ord) == SelectSeq(ord, LAMBDA p : p \in S)

RECURSIVE visit(_, _, _, _)
RECURSIVE VisitDeps(_, _, _, _, _)

(* Variant: a path is appended before its dependencies are visited. *)
VisitPreOrder(path, st, variables, ord) ==
    IF path \in st.temp
    THEN [st EXCEPT !.error = CompileError("circular dependency", path, None)]
    ELSE IF path \in st.visited THEN st
    ELSE LET s1 == [st EXCEPT !.temp = @ \cup {path}, !.order = Append(@, path)]
             s2 == IF DictHas(variables, path)
                   THEN VisitDeps(IterOrder(DictGet(variables, path).deps, ord),
                                  1, s1, variables, ord)
                   ELSE s1
         IN IF s2.error # NoError THEN s2
            ELSE [s2 EXCEPT !.temp = @ \ {path}, !.visited = @ \cup {path}]

(* Variant: a path is marked visited on entry and temp is not kept. *)
VisitMarkingOnEntry(path, st, variables, ord) ==
    IF path \in st.visited THEN st
    ELSE LET s1 == [st EXCEPT !.visited = @ \cup {path}]
             s2 == IF DictHas(variables, path)
                   THEN VisitDeps(IterOrder(DictGet(variables, path).deps, ord),
                                  1, s1, variables, ord)
                   ELSE s1
         IN [s2 EXCEPT !.order = Append(@, path)]

visit(path, st, variables, ord) ==
    IF path \in st.temp
    THEN [st EXCEPT !.error = CompileError("circular dependency", path, None)]
    ELSE IF path \in st.visited THEN st
    ELSE LET s1 == [st EXCEPT !.temp = @ \cup {path}]
             s2 == IF DictHas(variables, path)
                   THEN VisitDeps(IterOrder(DictGet(variables, path).deps, ord),
                                  1, s1, variables, ord)
                   ELSE s1
         IN IF s2.error # NoError THEN s2
            ELSE [s2 EXCEPT !.temp = @ \ {path},
                            !.visited = @ \cup {path},
                            !.order = Append(@, path)]

VisitDeps(deps, i, st, variables, ord) ==
    IF i > Len(deps) \/ st.error # NoError THEN st
    ELSE VisitDeps(deps, i + 1, visit(deps[i], st, variables, ord), variables, ord)

RECURSIVE VisitAll(_, _, _, _)
VisitAll(variables, i, st, ord) ==
    IF i > Len(variables) \/ st.error # NoError THEN st
    ELSE VisitAll(variables, i + 1, visit(variables[i].key, st, variables, ord), ord)

_topo_sort(variables, ord) ==
    VisitAll(variables, 1,
             [visited |-> {}, order |-> <<>>, temp |-> {}, error |-> NoError], ord)

----------------------------------------------------------------------------
(* Compiler.compile: one call on the instance.  The fields of the instance *)
(* keep what the call stored before it raised.                             *)

Raised(err) == [status |-> "raised", error |-> err, ir |-> IR(Schema, <<>>, <<>>)]

Returned(ir) == [status |-> "returned", error |-> NoError, ir |-> ir]

NotCalled == [status |-> "none", error |-> NoError, ir |-> IR(Schema, <<>>, <<>>)]

(* Executor.execute has not been called. *)
NotExecuted == [status |-> "none", error |-> NoError, scalars |-> <<>>, entities |-> <<>>]

(* No Model has been made, and no method of a Model has been called. *)
NoModel == [status |-> "none", error |-> NoError, ir |-> IR(Schema, <<>>, <<>>), binary |-> <<>>]

NotReturned == [op |-> "none", args |-> <<>>, outcome |-> <<>>]

(* validate_data has not been called. *)
NotValidated == [status |-> "none", errors |-> <<>>]

(* cut has not been called, and there is no call to make. *)
NoCall == [amount |-> <<>>, schedule |-> <<>>]

NotCut == [kind |-> "none"]

(* No source text has been given to parse, and parse has not been called. *)
NoSource == <<>>

NotParsed == [status |-> "none"]

(* The cache directory has no project, and compile_to_binary has not been *)
(* called.                                                                 *)
NoProjects == <<>>

NoCalls == <<>>

NoModels ==
    /\ reform_modules = <<>>
    /\ baseline = NoModel
    /\ reform = NoModel
    /\ returned = NotReturned

compile(st, mods, T, ord) ==
    LET c == CollectModulesFrom(mods, 1, st)
        r == _resolve_temporal(c.var_decls, c.amendments, T)
        resolved == ComputeDeps(r.resolved)
        t == _topo_sort(resolved, ord)
    IN [self |-> c,
        result |-> IF c.error # NoError THEN Raised(c.error)
                   ELSE IF r.error # NoError THEN Raised(r.error)
                   ELSE IF t.error # NoError THEN Raised(t.error)
                   ELSE Returned(IR(c.schema, resolved, t.order))]

----------------------------------------------------------------------------
(* The inputs: module lists as the parser produces them. *)

PA == <<"gov", "a">>

PB == <<"gov", "b">>

PC == <<"gov", "c">>

PK == <<"k">>

SlashPaths == {PA, PB, PC}

Orders(S) ==
    {f \in [1..Cardinality(S) -> S] : \A i, j \in 1..Cardinality(S) : i # j => f[i] # f[j]}

SeqUpTo(S, n) == UNION {[1..k -> S] : k \in 0..n}

Ends == {None} \cup {Some(d) : d \in Dates}

Always(x) == <<TemporalValue(1, None, x)>>

(* Declarations placed in modules: the items of a flat list go to modules  *)
(* of non-decreasing index, keeping the list's order within each module.   *)
Placed(specs) == \A j \in DOMAIN specs : j > 1 => specs[j - 1].mod <= specs[j].mod

InModule(items, m) == SelectSeq(items, LAMBDA it : it.mod = m)

DeclsOf(items) == [j \in DOMAIN items |-> items[j].decl]

(* The k-th value of the j-th declaration of a list carries an expression  *)
(* of its own.                                                             *)
Tagged(intervals, j) ==
    [k \in DOMAIN intervals |->
        TemporalValue(intervals[k].start, intervals[k].end, Literal(10 * j + k))]

(* Layers: one variable, or one amendment to an always-defined variable,   *)
(* with up to MaxValues temporal values over every interval.               *)
LayerValues ==
    {Tagged(ivs, 1) : ivs \in SeqUpTo([start : Dates, end : Ends], MaxValues)}

LayerModules ==
    {<<Module(<<>>, <<VariableDecl(PA, None, vs)>>, <<>>)>> : vs \in LayerValues}
    \cup
    {<<Module(<<>>, <<VariableDecl(PA, None, Always(Literal(0)))>>, <<AmendDecl(PA, vs)>>)>> :
        vs \in LayerValues}

(* Amendments: gov/a declared in the first or the last module, from the    *)
(* first or the last date on, gov/b declared or not, and up to MaxDecls    *)
(* amendments to either.                                                   *)
AmendSpecs ==
    {specs \in SeqUpTo([target : {PA, PB}, mod : 1..MaxModules,
                        values : {<<[start |-> 1, end |-> None]>>,
                                  <<[start |-> MaxDate, end |-> None]>>,
                                  <<[start |-> 1, end |-> Some(1)]>>}],
                       MaxDecls) : Placed(specs)}

AmendItems(specs) ==
    [j \in DOMAIN specs |->
        [mod |-> specs[j].mod,
         decl |-> AmendDecl(specs[j].target, Tagged(specs[j].values, j))]]

AmendModules ==
    {[m \in 1..MaxModules |->
        Module(<<>>,
               (IF m = bm THEN <<VariableDecl(PA, None, <<TemporalValue(s, None, Literal(0))>>)>>
                ELSE <<>>)
               \o (IF m = 1 /\ withB THEN <<VariableDecl(PB, None, Always(Literal(1)))>>
                   ELSE <<>>),
               DeclsOf(InModule(AmendItems(specs), m)))] :
        bm \in {1, MaxModules}, s \in {1, MaxDate}, withB \in BOOLEAN, specs \in AmendSpecs}

(* Variable declarations: up to MaxDecls declarations of gov/a and gov/b   *)
(* over the modules, with or without an amendment to the undeclared gov/c. *)
VarSpecs ==
    {specs \in SeqUpTo([path : {PA, PB}, mod : 1..MaxModules,
                        values : {<<>>, <<[start |-> 1, end |-> None]>>,
                                  <<[start |-> MaxDate, end |-> None]>>}],
                       MaxDecls) : Placed(specs)}

VarItems(specs) ==
    [j \in DOMAIN specs |->
        [mod |-> specs[j].mod,
         decl |-> VariableDecl(specs[j].path, None, Tagged(specs[j].values, j))]]

VarModules ==
    {[m \in 1..MaxModules |->
        Module(<<>>,
               DeclsOf(InModule(VarItems(specs), m)),
               IF m = 1 /\ withAmend THEN <<AmendDecl(PC, Always(Literal(9)))>> ELSE <<>>)] :
        specs \in VarSpecs, withAmend \in BOOLEAN}

(* Dependency graphs: distinct '/'-paths declared in one module, each      *)
(* with one expression that is always in force.                            *)
GraphExprs ==
    {Literal(1), Var(PA), Var(PB), Var(PC), Var(PK),
     BinOp("+", Var(PA), Var(PB)), BinOp("+", Var(PB), Var(PC)),
     BinOp("*", Var(PC), Var(PA))}

GraphPaths ==
    {ps \in SeqUpTo(SlashPaths, Cardinality(SlashPaths)) :
        \A i, j \in DOMAIN ps : i # j => ps[i] # ps[j]}

GraphModules ==
    UNION {{<<Module(<<>>, [i \in DOMAIN ps |-> VariableDecl(ps[i], None, Always(xs[i]))], <<>>)>> :
                xs \in [DOMAIN ps -> GraphExprs]} : ps \in GraphPaths}

(* Entities: up to MaxDecls declarations of person and household, and a    *)
(* variable of person.                                                     *)
EntityDecls ==
    {EntityDecl("person", fs, <<>>) :
        fs \in {<<>>, <<<<"income", "float">>>>, <<<<"income", "int">>>>, <<<<"age", "int">>>>,
                <<<<"income", "float">>, <<"age", "int">>>>,
                <<<<"income", "float">>, <<"income", "int">>>>}}
    \cup
    {EntityDecl("person", <<<<"home_id", "int">>>>, <<<<"home", "household", many>>>>) :
        many \in BOOLEAN}
    \cup
    {EntityDecl("household", fs, <<>>) : fs \in {<<>>, <<<<"size", "int">>>>}}

EntitySpecs ==
    {specs \in SeqUpTo([decl : EntityDecls, mod : 1..MaxModules], MaxDecls) : Placed(specs)}

EntityModules ==
    {[m \in 1..MaxModules |->
        Module(DeclsOf(InModule(specs, m)),
               IF m = 1 THEN <<VariableDecl(<<"person", "tax">>, Some("person"),
                                            Always(Var(<<"income">>)))>>
               ELSE <<>>,
               <<>>)] :
        specs \in EntitySpecs}

(* Bare identifiers as variable paths: a and b declared in one module,     *)
(* each a literal or one more than a or than b.                            *)
BareA == <<"a">>

BareB == <<"b">>

BareExprs ==
    {Literal(1), BinOp("+", Var(BareA), Literal(1)), BinOp("+", Var(BareB), Literal(1))}

BareModules ==
    {<<Module(<<>>,
              <<VariableDecl(BareA, None, Always(xa)), VariableDecl(BareB, None, Always(xb))>>,
              <<>>)>> :
        xa \in BareExprs, xb \in BareExprs}

(* The order in which the process iterates a set of paths matters only     *)
(* where some expression refers to two '/'-paths: in the graphs.  The date *)
(* matters only where some temporal value is not always in force.          *)
DefaultOrder == <<PA, PB, PC>>

----------------------------------------------------------------------------
(* The state machine: Compiler(modules) is constructed, then compile is    *)
(* called on the instance with the date as_of, at most MaxCompiles times.  *)

Init ==
    /\ \/ /\ modules \in LayerModules \cup AmendModules \cup VarModules
          /\ set_order = DefaultOrder
          /\ as_of \in Dates
       \/ /\ modules \in EntityModules \cup BareModules
          /\ set_order = DefaultOrder
          /\ as_of = 1
       \/ /\ modules \in GraphModules
          /\ set_order \in Orders(SlashPaths)
          /\ as_of = 1
    /\ schema = Schema
    /\ var_decls = <<>>
    /\ amendments = <<>>
    /\ outcome = NotCalled
    /\ compiles = 0
    /\ data = <<>>
    /\ exec_result = NotExecuted
    /\ NoModels
    /\ errors = NotValidated
    /\ cut_call = NoCall
    /\ cut_result = NotCut
    /\ source = NoSource
    /\ parsed = NotParsed
    /\ cache_dir = NoProjects
    /\ calls = NoCalls

Compile ==
    /\ compiles < MaxCompiles
    /\ LET c == compile([schema |-> schema, var_decls |-> var_decls,
                         amendments |-> amendments, error |-> NoError],
                        modules, as_of, set_order)
       IN /\ schema' = c.self.schema
          /\ var_decls' = c.self.var_decls
          /\ amendments' = c.self.amendments
          /\ outcome' = c.result
    /\ compiles' = compiles + 1
    /\ UNCHANGED <<modules, set_order, as_of, data, exec_result, reform_modules, baseline, reform,
                   returned, errors,
                   cut_call, cut_result,
                   source, parsed,
                   cache_dir, calls>>

Next == Compile

Spec == Init /\ [][Next]_vars

----------------------------------------------------------------------------
(* What the claims speak of, read off the source modules rather than off   *)
(* the compiler's fields.                                                  *)

RECURSIVE VariablesFrom(_)
VariablesFrom(i) ==
    IF i > Len(modules) THEN <<>> ELSE modules[i].variables \o VariablesFrom(i + 1)

RECURSIVE AmendmentsFrom(_)
AmendmentsFrom(i) ==
    IF i > Len(modules) THEN <<>> ELSE modules[i].amendments \o AmendmentsFrom(i + 1)

SourceVariables == VariablesFrom(1)

SourceAmendments == AmendmentsFrom(1)

DeclaredPaths == {SourceVariables[i].path : i \in DOMAIN SourceVariables}

DeclOf(p) == SourceVariables[CHOOSE i \in DOMAIN SourceVariables : SourceVariables[i].path = p]

HasDuplicate ==
    \E i, j \in DOMAIN SourceVariables : i < j /\ SourceVariables[i].path = SourceVariables[j].path

MaxOf(S) == CHOOSE x \in S : \A y \in S : y <= x

MinOf(S) == CHOOSE x \in S : \A y \in S : x <= y

(* The interval of a temporal value contains T, end date included. *)
InForce(tv, T) == tv.start <= T /\ (tv.end = None \/ T <= tv.end[1])

(* The same with the end date excluded. *)
InForceBefore(tv, T) == tv.start <= T /\ (tv.end = None \/ T < tv.end[1])

InForceAt(values, T) == {i \in DOMAIN values : InForce(values[i], T)}

AmendmentsTo(p) == {j \in DOMAIN SourceAmendments : SourceAmendments[j].target = p}

AmendmentsInForce(p, T) ==
    {j \in AmendmentsTo(p) : InForceAt(SourceAmendments[j].values, T) # {}}

FirstCall == compiles = 1

IRReturned == outcome.status = "returned"

VarOf(p) == DictGet(outcome.ir.variables, p)

----------------------------------------------------------------------------
(* C1: for a variable with temporal values in declaration order, the       *)
(* compiler resolves the variable at date T to the expression of the       *)
(* value with the greatest declaration index i such that start_i <= T and  *)
(* (end_i is absent or T <= end_i); declaration order, not start date,     *)
(* decides among several applicable values.  Stated of the variables that  *)
(* no amendment targets (amendments are C3's).                             *)
C1_LastContainingValueWins ==
    IRReturned =>
        \A p \in DeclaredPaths :
            /\ DictHas(outcome.ir.variables, p)
            /\ AmendmentsTo(p) = {} =>
                  LET values == DeclOf(p).values
                      I == InForceAt(values, as_of)
                  IN I # {} /\ VarOf(p).expr = values[MaxOf(I)].expr

(* The case of C1: two values in force with different expressions, the     *)
(* one declared later starting earlier; the later declaration is chosen.   *)
C1_Witness ==
    /\ IRReturned
    /\ \E p \in DeclaredPaths :
          /\ AmendmentsTo(p) = {}
          /\ LET values == DeclOf(p).values
                 I == InForceAt(values, as_of)
             IN \E i, j \in I :
                   /\ i < j /\ j = MaxOf(I)
                   /\ values[j].start < values[i].start
                   /\ values[i].expr # values[j].expr
                   /\ VarOf(p).expr = values[j].expr

----------------------------------------------------------------------------
(* C2 as stated: the end date is an exclusive upper bound, so a variable   *)
(* resolves to the last value with start <= T and (no end or T < end).     *)
C2_EndExclusive ==
    IRReturned =>
        \A p \in DeclaredPaths :
            AmendmentsTo(p) = {} =>
                LET values == DeclOf(p).values
                    I == {i \in DOMAIN values : InForceBefore(values[i], as_of)}
                IN I # {} /\ VarOf(p).expr = values[MaxOf(I)].expr

(* C2, amended: the end date is an inclusive upper bound.  A temporal      *)
(* value with start <= T applies when T equals its end date: if no later   *)
(* value of the variable is in force, compile does not report 'no value'   *)
(* for the variable and resolves it to that value's expression; and a      *)
(* value whose end date is before T never supplies the expression.         *)
C2_EndInclusive ==
    FirstCall /\ ~HasDuplicate =>
        \A p \in DeclaredPaths :
            AmendmentsTo(p) = {} =>
                LET values == DeclOf(p).values
                IN /\ \A i \in DOMAIN values :
                         /\ values[i].start <= as_of
                         /\ values[i].end = Some(as_of)
                         /\ \A j \in DOMAIN values : j > i => ~InForce(values[j], as_of)
                         => /\ outcome.error # CompileError("no value", p, Some(as_of))
                            /\ IRReturned => VarOf(p).expr = values[i].expr
                   /\ IRReturned =>
                         \E i \in DOMAIN values :
                            /\ VarOf(p).expr = values[i].expr
                            /\ values[i].start <= as_of
                            /\ (values[i].end = None \/ values[i].end[1] >= as_of)

(* The case of C2: the only value in force at T is one that ends at T,     *)
(* and the variable is resolved to it.                                     *)
C2_Witness ==
    /\ IRReturned
    /\ \E p \in DeclaredPaths :
          /\ AmendmentsTo(p) = {}
          /\ LET values == DeclOf(p).values
             IN \E i \in DOMAIN values :
                   /\ values[i].start <= as_of /\ values[i].end = Some(as_of)
                   /\ \A j \in DOMAIN values : j # i => ~InForce(values[j], as_of)
                   /\ VarOf(p).expr = values[i].expr

----------------------------------------------------------------------------
LastInForce(values, T) == values[MaxOf(InForceAt(values, T))].expr

UnknownTargets ==
    {j \in DOMAIN SourceAmendments : SourceAmendments[j].target \notin DeclaredPaths}

WithoutValue ==
    {i \in DOMAIN SourceVariables : InForceAt(SourceVariables[i].values, as_of) = {}}

Redeclarations ==
    {j \in DOMAIN SourceVariables :
        \E i \in DOMAIN SourceVariables : i < j /\ SourceVariables[i].path = SourceVariables[j].path}

(* C3: amendments are applied after base resolution in source order        *)
(* (module order, then order within a module): every variable of the IR    *)
(* has the expression of the last amendment to it that has a temporal      *)
(* value containing T, and the base-resolved expression when no amendment  *)
(* to it has one.                                                          *)
C3_LastAmendmentInForceWins ==
    IRReturned =>
        \A p \in DeclaredPaths :
            LET J == AmendmentsInForce(p, as_of)
            IN VarOf(p).expr =
                  IF J = {} THEN LastInForce(DeclOf(p).values, as_of)
                  ELSE LastInForce(SourceAmendments[MaxOf(J)].values, as_of)

(* The case of C3: two amendments to one variable, in different modules,   *)
(* both in force; the one of the later module is chosen.                   *)
C3_Witness ==
    /\ IRReturned
    /\ \E m1, m2 \in DOMAIN modules :
          /\ m1 < m2
          /\ \E a1 \in DOMAIN modules[m1].amendments, a2 \in DOMAIN modules[m2].amendments :
                LET first == modules[m1].amendments[a1]
                    second == modules[m2].amendments[a2]
                IN /\ first.target = second.target
                   /\ InForceAt(first.values, as_of) # {}
                   /\ InForceAt(second.values, as_of) # {}
                   /\ VarOf(first.target).expr = LastInForce(second.values, as_of)
                   /\ VarOf(first.target).expr # LastInForce(first.values, as_of)

----------------------------------------------------------------------------
(* C4: when some amendment targets a path that no variable declaration     *)
(* declares, compile fails and returns no IR, whether or not a temporal    *)
(* value of the amendment contains T; the error is the unknown-target      *)
(* error of the first such amendment unless collecting the declarations or *)
(* resolving the declared variables has already failed.                    *)
C4_UnknownAmendmentTargetFails ==
    FirstCall /\ UnknownTargets # {} =>
        /\ outcome.status = "raised"
        /\ ~HasDuplicate /\ WithoutValue = {} =>
              outcome.error = CompileError("amending unknown variable",
                                           SourceAmendments[MinOf(UnknownTargets)].target, None)

(* The case of C4: the amendment to the undeclared path has no temporal    *)
(* value containing T, and compile fails on it all the same.               *)
C4_Witness ==
    /\ FirstCall
    /\ outcome.status = "raised"
    /\ outcome.error.kind = "amending unknown variable"
    /\ \E j \in UnknownTargets :
          /\ j = MinOf(UnknownTargets)
          /\ SourceAmendments[j].values # <<>>
          /\ InForceAt(SourceAmendments[j].values, as_of) = {}

----------------------------------------------------------------------------
(* C5: when the merged modules declare the same variable path twice, in    *)
(* one module or across modules, compile fails with the duplicate-         *)
(* declaration error for the first redeclared path.                        *)
C5_DuplicateDeclarationFails ==
    FirstCall /\ HasDuplicate =>
        outcome = Raised(CompileError("duplicate variable",
                                      SourceVariables[MinOf(Redeclarations)].path, None))

(* The case of C5: the two declarations are in different modules.          *)
C5_Witness ==
    /\ FirstCall
    /\ outcome.status = "raised"
    /\ outcome.error.kind = "duplicate variable"
    /\ \E m1, m2 \in DOMAIN modules :
          /\ m1 < m2
          /\ \E v1 \in DOMAIN modules[m1].variables, v2 \in DOMAIN modules[m2].variables :
                /\ modules[m1].variables[v1].path = modules[m2].variables[v2].path
                /\ modules[m1].variables[v1].path = outcome.error.path
    /\ \A m \in DOMAIN modules : \A v1, v2 \in DOMAIN modules[m].variables :
          v1 # v2 => modules[m].variables[v1].path # modules[m].variables[v2].path

----------------------------------------------------------------------------
(* C6: when some declared variable has no temporal value whose interval    *)
(* contains T, compile fails; unless a duplicate declaration has failed    *)
(* it first, the error is 'no value for <path> at <T>' for the first such  *)
(* variable in declaration order, and when every declared variable has a   *)
(* value at T compile does not fail with that error.                       *)
C6_NoValueFails ==
    FirstCall =>
        /\ WithoutValue # {} => outcome.status = "raised"
        /\ ~HasDuplicate =>
              IF WithoutValue # {}
              THEN outcome = Raised(CompileError("no value",
                                                 SourceVariables[MinOf(WithoutValue)].path,
                                                 Some(as_of)))
              ELSE outcome.error.kind # "no value"

(* The case of C6: a variable declared after one that resolves has values, *)
(* none of which contains T.                                               *)
C6_Witness ==
    /\ FirstCall
    /\ outcome.status = "raised"
    /\ outcome.error.kind = "no value"
    /\ outcome.error.at = Some(as_of)
    /\ \E i \in WithoutValue :
          /\ i = MinOf(WithoutValue) /\ i > 1
          /\ SourceVariables[i].values # <<>>
          /\ SourceVariables[i].path = outcome.error.path

----------------------------------------------------------------------------
RECURSIVE EntitiesFrom(_)
EntitiesFrom(i) ==
    IF i > Len(modules) THEN <<>> ELSE modules[i].entities \o EntitiesFrom(i + 1)

SourceEntities == EntitiesFrom(1)

DeclaredFields(name) ==
    UNION {{SourceEntities[i].fields[k] : k \in DOMAIN SourceEntities[i].fields} :
            i \in {j \in DOMAIN SourceEntities : SourceEntities[j].name = name}}

DeclaredRelations(name) ==
    UNION {{SourceEntities[i].relations[k] : k \in DOMAIN SourceEntities[i].relations} :
            i \in {j \in DOMAIN SourceEntities : SourceEntities[j].name = name}}

(* C7: when an entity name is declared several times, the entity of the    *)
(* compiled schema holds the union of the fields and of the relations of   *)
(* all its declarations.                                                   *)
C7_EntityHoldsUnionOfDeclarations ==
    IRReturned =>
        \A i \in DOMAIN SourceEntities :
            LET name == SourceEntities[i].name
                entity == DictGet(outcome.ir.schema_.entities, name)
            IN /\ DictHas(outcome.ir.schema_.entities, name)
               /\ KeySet(entity.fields) = {f[1] : f \in DeclaredFields(name)}
               /\ KeySet(entity.relations) = {r[1] : r \in DeclaredRelations(name)}

(* C8: when the same field of the same entity is declared with two         *)
(* different types, compile fails.                                         *)
C8_FieldTypeConflictFails ==
    FirstCall /\ (\E i \in DOMAIN SourceEntities :
                    \E f, g \in DeclaredFields(SourceEntities[i].name) :
                        f[1] = g[1] /\ f[2] # g[2])
        => outcome.status = "raised"

----------------------------------------------------------------------------
(* C9: in every IR that compile returns, every path in the dependency set  *)
(* of a variable appears in order at a smaller index than the variable.    *)
C9_DependenciesPrecede ==
    IRReturned =>
        \A i \in DOMAIN outcome.ir.variables :
            LET u == outcome.ir.variables[i].value
            IN \A v \in u.deps :
                  \E a, b \in DOMAIN outcome.ir.order :
                     /\ outcome.ir.order[a] = v
                     /\ outcome.ir.order[b] = u.path
                     /\ a < b

(* The case of C9: a variable depends on a variable declared after it and  *)
(* on an undeclared path, and both precede it in order.                    *)
C9_Witness ==
    /\ IRReturned
    /\ \E i, j \in DOMAIN SourceVariables :
          /\ i < j
          /\ LET u == VarOf(SourceVariables[i].path)
                 v == SourceVariables[j].path
             IN /\ v \in u.deps
                /\ \E w \in u.deps : w \notin DeclaredPaths
                /\ \A d \in u.deps :
                      \E a, b \in DOMAIN outcome.ir.order :
                         outcome.ir.order[a] = d /\ outcome.ir.order[b] = u.path /\ a < b

----------------------------------------------------------------------------
(* The dependency graph of the resolved expressions. *)

ResolvedExpr(p) ==
    LET J == AmendmentsInForce(p, as_of)
    IN IF J = {} THEN LastInForce(DeclOf(p).values, as_of)
       ELSE LastInForce(SourceAmendments[MaxOf(J)].values, as_of)

DependsOn ==
    UNION {{<<u, v>> : v \in _find_deps(ResolvedExpr(u))} : u \in DeclaredPaths}

RECURSIVE TransitiveClosure(_)
TransitiveClosure(R) ==
    LET step == R \cup {<<e[1][1], e[2][2]>> : e \in {x \in R \X R : x[1][2] = x[2][1]}}
    IN IF step = R THEN R ELSE TransitiveClosure(step)

OnCycle(p) == <<p, p>> \in TransitiveClosure(DependsOn)

NoOtherError == ~HasDuplicate /\ WithoutValue = {} /\ UnknownTargets = {}

(* C10: for module sets with no other compile error, compile fails with a  *)
(* circular-dependency error if and only if the dependency graph of the    *)
(* resolved expressions has a cycle (a self-reference included), and the   *)
(* error names a path that lies on a cycle.                                *)
C10_CircularDependencyIffCycle ==
    FirstCall /\ NoOtherError =>
        /\ (outcome.status = "raised" /\ outcome.error.kind = "circular dependency")
              <=> (\E p \in DeclaredPaths : OnCycle(p))
        /\ outcome.status = "raised" => OnCycle(outcome.error.path)
        /\ outcome.status = "returned" \/ outcome.error.kind = "circular dependency"

(* The case of C10: a cycle through two variables, neither of which        *)
(* refers to itself, is reported.                                          *)
C10_Witness ==
    /\ FirstCall /\ NoOtherError
    /\ outcome.status = "raised"
    /\ outcome.error.kind = "circular dependency"
    /\ OnCycle(outcome.error.path)
    /\ \A p \in DeclaredPaths : <<p, p>> \notin DependsOn

----------------------------------------------------------------------------
BareCycle ==
    <<Module(<<>>,
             <<VariableDecl(BareA, None, Always(BinOp("+", Var(BareB), Literal(1)))),
               VariableDecl(BareB, None, Always(BinOp("+", Var(BareA), Literal(1))))>>,
             <<>>)>>

SlashCycle ==
    <<Module(<<>>,
             <<VariableDecl(PA, None, Always(Var(PB))),
               VariableDecl(PB, None, Always(Var(PA)))>>,
             <<>>)>>

(* C11 as stated: compiling the two variables a = b + 1 and b = a + 1,     *)
(* whose paths are bare identifiers, fails with a circular-dependency      *)
(* error that names a or b.                                                *)
C11_BareCycleFails ==
    FirstCall /\ modules = BareCycle =>
        /\ outcome.status = "raised"
        /\ outcome.error.kind = "circular dependency"
        /\ outcome.error.path \in {BareA, BareB}

(* C11 amended: a reference by bare identifier is no dependency, so        *)
(* a = b + 1 and b = a + 1 compile to an IR with the order a, b and no     *)
(* dependencies; the same mutual reference between the '/'-paths gov/a and *)
(* gov/b fails with a circular-dependency error that names one of them.    *)
C11_BareCycleCompiles ==
    /\ FirstCall /\ modules = BareCycle =>
          /\ outcome.status = "returned"
          /\ outcome.ir.order = <<BareA, BareB>>
          /\ \A i \in DOMAIN outcome.ir.variables : outcome.ir.variables[i].value.deps = {}
    /\ FirstCall /\ modules = SlashCycle =>
          /\ outcome.status = "raised"
          /\ outcome.error.kind = "circular dependency"
          /\ outcome.error.path \in {PA, PB}

(* The case of C11: the two bare-identifier variables have been compiled.  *)
C11_Witness ==
    /\ FirstCall /\ modules = BareCycle
    /\ outcome.status = "returned"
    /\ KeySet(outcome.ir.variables) = {BareA, BareB}

----------------------------------------------------------------------------
(* The interpreter (src/src/rac/executor.py).                              *)
(*                                                                         *)
(* Runtime values are Python numbers and booleans.  A number is the exact  *)
(* rational it denotes, [num, den] in lowest terms with den > 0 (an int    *)
(* and the float of the same value are one number, as under Python's ==),  *)
(* a boolean is [bool |-> b].  The outcome of an evaluation is Ok(value)   *)
(* or the exception it raised.                                             *)

RECURSIVE GCD(_, _)
GCD(a, b) == IF b = 0 THEN a ELSE GCD(b, a % b)

Abs(n) == IF n < 0 THEN -n ELSE n

Num(n, d) ==
    LET g == GCD(Abs(n), Abs(d))
        sgn == IF d < 0 THEN -1 ELSE 1
    IN [num |-> (sgn * n) \div g, den |-> (sgn * d) \div g]

Whole(n) == Num(n, 1)

Bool(b) == [bool |-> b]

IsBool(v) == "bool" \in DOMAIN v

(* bool is a subclass of int: True is 1 and False is 0 in arithmetic. *)
AsNum(v) == IF IsBool(v) THEN Whole(IF v.bool THEN 1 ELSE 0) ELSE v

Truthy(v) == IF IsBool(v) THEN v.bool ELSE v.num # 0

PyEq(a, b) == AsNum(a) = AsNum(b)

PyLt(a, b) == AsNum(a).num * AsNum(b).den < AsNum(b).num * AsNum(a).den

PyAdd(a, b) ==
    Num(AsNum(a).num * AsNum(b).den + AsNum(b).num * AsNum(a).den, AsNum(a).den * AsNum(b).den)

PyNeg(a) == Num(-AsNum(a).num, AsNum(a).den)

PySub(a, b) == PyAdd(a, PyNeg(b))

PyMul(a, b) == Num(AsNum(a).num * AsNum(b).num, AsNum(a).den * AsNum(b).den)

PyTrueDiv(a, b) == Num(AsNum(a).num * AsNum(b).den, AsNum(a).den * AsNum(b).num)

Ok(v) == [ok |-> TRUE, value |-> v]

ExecutionError(k, p) == [ok |-> FALSE, kind |-> k, path |-> p]

(* An exception of the Python runtime that the interpreter does not catch. *)
PythonError(k, p) == [ok |-> FALSE, kind |-> k, path |-> p]

Context(d, computed, row, entity) ==
    [data |-> d, computed |-> computed, current_row |-> row, current_entity |-> entity]

(* Variant: a name that is neither computed nor in the current row is     *)
(* read from the first row of a table that has it.                         *)
GetFromTables(ctx, path) ==
    IF DictHas(ctx.computed, path) THEN Ok(DictGet(ctx.computed, path))
    ELSE IF /\ ctx.current_row # None
            /\ ctx.current_row[1] # <<>>
            /\ DictHas(ctx.current_row[1], path)
         THEN Ok(DictGet(ctx.current_row[1], path))
         ELSE LET has == {e \in DOMAIN ctx.data :
                            /\ ctx.data[e].value # <<>>
                            /\ ctx.data[e].value[1] # <<>>
                            /\ DictHas(ctx.data[e].value[1], path)}
              IN IF has = {} THEN ExecutionError("undefined", path)
                 ELSE Ok(DictGet(ctx.data[CHOOSE e \in has : TRUE].value[1], path))

(* Context.get.  An empty current_row is falsy, like None. *)
get(ctx, path) ==
    IF DictHas(ctx.computed, path) THEN Ok(DictGet(ctx.computed, path))
    ELSE IF /\ ctx.current_row # None
            /\ ctx.current_row[1] # <<>>
            /\ DictHas(ctx.current_row[1], path)
         THEN Ok(DictGet(ctx.current_row[1], path))
         ELSE ExecutionError("undefined", path)

----------------------------------------------------------------------------
(* BUILTINS: the Python built-ins on numbers.  min and max return the      *)
(* first extremal argument; round rounds half to even; a built-in applied  *)
(* to the wrong number of arguments, or to a number where it needs an      *)
(* iterable, raises TypeError.                                             *)

BUILTINS ==
    {<<"min">>, <<"max">>, <<"abs">>, <<"round">>, <<"sum">>, <<"len">>, <<"clip">>,
     <<"any">>, <<"all">>}

RECURSIVE MaxFrom(_, _, _)
MaxFrom(args, i, best) ==
    IF i > Len(args) THEN best
    ELSE MaxFrom(args, i + 1, IF PyLt(best, args[i]) THEN args[i] ELSE best)

RECURSIVE MinFrom(_, _, _)
MinFrom(args, i, best) ==
    IF i > Len(args) THEN best
    ELSE MinFrom(args, i + 1, IF PyLt(args[i], best) THEN args[i] ELSE best)

RoundHalfEven(x) ==
    LET q == x.num \div x.den
        twice == 2 * (x.num - q * x.den)
    IN IF twice < x.den THEN q
       ELSE IF twice > x.den THEN q + 1
       ELSE IF q % 2 = 0 THEN q ELSE q + 1

RECURSIVE Pow10(_)
Pow10(n) == IF n = 0 THEN 1 ELSE 10 * Pow10(n - 1)

Round(args) ==
    IF Len(args) = 1 THEN Ok(Whole(RoundHalfEven(AsNum(args[1]))))
    ELSE IF Len(args) = 2 /\ AsNum(args[2]).den = 1
    THEN LET n == AsNum(args[2]).num
             scale == IF n >= 0 THEN Whole(Pow10(n)) ELSE Num(1, Pow10(-n))
         IN Ok(PyTrueDiv(Whole(RoundHalfEven(PyMul(args[1], scale))), scale))
    ELSE PythonError("TypeError", <<"round">>)

CallBuiltin(func, args) ==
    CASE func = <<"max">> ->
            IF Len(args) >= 2 THEN Ok(MaxFrom(args, 2, args[1]))
            ELSE PythonError("TypeError", func)
      [] func = <<"min">> ->
            IF Len(args) >= 2 THEN Ok(MinFrom(args, 2, args[1]))
            ELSE PythonError("TypeError", func)
      [] func = <<"abs">> ->
            IF Len(args) = 1
            THEN Ok(IF PyLt(args[1], Whole(0)) THEN PyNeg(args[1]) ELSE AsNum(args[1]))
            ELSE PythonError("TypeError", func)
      [] func = <<"round">> -> Round(args)
      [] func = <<"clip">> ->
            IF Len(args) = 3
            THEN Ok(MaxFrom(<<args[2], MinFrom(<<args[3], args[1]>>, 2, args[3])>>, 2, args[2]))
            ELSE PythonError("TypeError", func)
      [] OTHER -> PythonError("TypeError", func)

----------------------------------------------------------------------------
(* evaluate. *)

(* Variant: division by zero raises, as Python's own division does. *)
DivideRaising(l, r) ==
    IF ~PyEq(r, Whole(0)) THEN Ok(PyTrueDiv(l, r))
    ELSE PythonError("ZeroDivisionError", <<>>)

Divide(l, r) == IF ~PyEq(r, Whole(0)) THEN Ok(PyTrueDiv(l, r)) ELSE Ok(Whole(0))

BinOpValue(op, l, r) ==
    CASE op = "+" -> Ok(PyAdd(l, r))
      [] op = "-" -> Ok(PySub(l, r))
      [] op = "*" -> Ok(PyMul(l, r))
      [] op = "/" -> Divide(l, r)
      [] op = "<" -> Ok(Bool(PyLt(l, r)))
      [] op = ">" -> Ok(Bool(PyLt(r, l)))
      [] op = "<=" -> Ok(Bool(~PyLt(r, l)))
      [] op = ">=" -> Ok(Bool(~PyLt(l, r)))
      [] op = "==" -> Ok(Bool(PyEq(l, r)))
      [] op = "!=" -> Ok(Bool(~PyEq(l, r)))
      [] op = "and" -> Ok(IF Truthy(l) THEN r ELSE l)
      [] op = "or" -> Ok(IF Truthy(l) THEN l ELSE r)
      [] OTHER -> ExecutionError("unknown op", <<op>>)

(* Variant: the right operand of 'and' and 'or' counts only when the left *)
(* operand does not decide the result.                                     *)
CombineLazily(op, l, r) ==
    IF ~l.ok THEN l
    ELSE IF op \in {"and", "or"} /\ Truthy(l.value) = (op = "or") THEN l
    ELSE IF ~r.ok THEN r
    ELSE BinOpValue(op, l.value, r.value)

(* The BinOp case: the left operand is evaluated, then the right one, and  *)
(* an operand that raises ends the evaluation; then the operator applies.  *)
Combine(op, l, r) ==
    IF ~l.ok THEN l
    ELSE IF ~r.ok THEN r
    ELSE BinOpValue(op, l.value, r.value)

UnaryOpValue(op, v) ==
    CASE op = "-" -> Ok(PyNeg(v))
      [] op = "not" -> Ok(Bool(~Truthy(v)))
      [] OTHER -> ExecutionError("unknown unary op", <<op>>)

RECURSIVE evaluate(_, _)
RECURSIVE ShortCircuit(_, _)
RECURSIVE EvalArgs(_, _, _, _)
RECURSIVE EvalCases(_, _, _, _)

(* Variant: 'and' and 'or' evaluate their right operand only when the left *)
(* operand does not decide the result, as Python's own operators do.       *)
ShortCircuit(expr, ctx) ==
    IF expr.type = "binop" /\ expr.op \in {"and", "or"}
    THEN LET l == ShortCircuit(expr.left, ctx)
         IN IF ~l.ok THEN l
            ELSE IF Truthy(l.value) = (expr.op = "or") THEN l
            ELSE ShortCircuit(expr.right, ctx)
    ELSE evaluate(expr, ctx)

evaluate(expr, ctx) ==
    CASE expr.type = "literal" -> Ok(expr.value)
      [] expr.type = "var" -> get(ctx, expr.path)
      [] expr.type = "binop" ->
            Combine(expr.op, evaluate(expr.left, ctx), evaluate(expr.right, ctx))
      [] expr.type = "unaryop" ->
            LET v == evaluate(expr.operand, ctx)
            IN IF ~v.ok THEN v ELSE UnaryOpValue(expr.op, v.value)
      [] expr.type = "call" ->
            IF expr.func \notin BUILTINS
            THEN ExecutionError("unknown function", expr.func)
            ELSE LET arg_vals == EvalArgs(expr.args, 1, ctx, <<>>)
                 IN IF ~arg_vals.ok THEN arg_vals
                    ELSE CallBuiltin(expr.func, arg_vals.value)
      [] expr.type = "field_access" ->
            (* a number is neither a dict nor a list, and has no attribute *)
            (* of the name of a field                                      *)
            LET o == evaluate(expr.obj, ctx)
            IN IF ~o.ok THEN o ELSE PythonError("AttributeError", <<expr.field>>)
      [] expr.type = "match" ->
            LET val == evaluate(expr.subject, ctx)
            IN IF ~val.ok THEN val ELSE EvalCases(expr, 1, val.value, ctx)
      [] expr.type = "cond" ->
            LET c == evaluate(expr.condition, ctx)
            IN IF ~c.ok THEN c
               ELSE IF Truthy(c.value) THEN evaluate(expr.then_expr, ctx)
               ELSE evaluate(expr.else_expr, ctx)
      [] OTHER -> ExecutionError("unknown expr type", <<>>)

EvalArgs(args, i, ctx, acc) ==
    IF i > Len(args) THEN Ok(acc)
    ELSE LET a == evaluate(args[i], ctx)
         IN IF ~a.ok THEN a ELSE EvalArgs(args, i + 1, ctx, Append(acc, a.value))

(* Variant: every pattern is evaluated before the first one is compared. *)
EvalCasesEagerly(expr, i, val, ctx) ==
    LET pattern_vals == [k \in DOMAIN expr.cases |-> evaluate(expr.cases[k][1], ctx)]
        failing == {k \in DOMAIN expr.cases : ~pattern_vals[k].ok}
        equal == {k \in DOMAIN expr.cases \ failing : PyEq(val, pattern_vals[k].value)}
    IN IF failing # {} THEN pattern_vals[MinOf(failing)]
       ELSE IF equal # {} THEN evaluate(expr.cases[MinOf(equal)][2], ctx)
       ELSE IF expr.default # None THEN evaluate(expr.default[1], ctx)
       ELSE ExecutionError("no match", <<>>)

EvalCases(expr, i, val, ctx) ==
    IF i > Len(expr.cases)
    THEN IF expr.default # None THEN evaluate(expr.default[1], ctx)
         ELSE ExecutionError("no match", <<>>)
    ELSE LET pattern_val == evaluate(expr.cases[i][1], ctx)
         IN IF ~pattern_val.ok THEN pattern_val
            ELSE IF PyEq(val, pattern_val.value) THEN evaluate(expr.cases[i][2], ctx)
            ELSE EvalCases(expr, i + 1, val, ctx)

----------------------------------------------------------------------------
(* Executor.execute.  The loop state is the context's computed map, the    *)
(* entities map and the exception raised, if any; a raised exception ends  *)
(* the loop and no Result is returned.                                     *)

Result(scalars, entities) ==
    [status |-> "returned", error |-> NoError, scalars |-> scalars, entities |-> entities]

ExecRaised(err) == [status |-> "raised", error |-> err, scalars |-> <<>>, entities |-> <<>>]

(* Data.get_rows *)
get_rows(d, entity) == IF DictHas(d, entity) THEN DictGet(d, entity) ELSE <<>>

(* The augmented row: the row and, of every list of the entity's outputs   *)
(* that is longer than the row's index, the value at that index.           *)
(* Variant: the row is augmented with the outputs at the first index. *)
RECURSIVE AugmentWithFirst(_, _, _, _)
AugmentWithFirst(augmented, prev, k, i) ==
    IF k > Len(prev) THEN augmented
    ELSE AugmentWithFirst(IF Len(prev[k].value) >= i
                          THEN DictSet(augmented, prev[k].key, prev[k].value[1])
                          ELSE augmented,
                          prev, k + 1, i)

RECURSIVE Augment(_, _, _, _)
Augment(augmented, prev, k, i) ==
    IF k > Len(prev) THEN augmented
    ELSE Augment(IF Len(prev[k].value) >= i
                 THEN DictSet(augmented, prev[k].key, prev[k].value[i])
                 ELSE augmented,
                 prev, k + 1, i)

(* A row of the Data is a mapping that the table and the index hold by    *)
(* reference: ref is its place, <<entity, i>>, and items what it maps.  A  *)
(* mapping that the Data does not hold has the place <<>>.                 *)
RowObject(tables, entity, i) ==
    [ref |-> <<entity, i>>, items |-> DictGet(tables, entity)[i]]

(* Variant: the augmented row is the row itself. *)
SameDict(row) == row

(* dict(row): a new mapping with the items of the row. *)
NewDict(row) == [ref |-> <<>>, items |-> row.items]

(* The tables after the items of a mapping were set. *)
Written(tables, obj) ==
    IF obj.ref = <<>> THEN tables
    ELSE DictSet(tables, obj.ref[1],
                 [DictGet(tables, obj.ref[1]) EXCEPT ![obj.ref[2]] = obj.items])

RECURSIVE ExecuteRows(_, _, _, _, _)
ExecuteRows(var, rows, i, d, st) ==
    IF i > Len(rows) \/ st.raised # None THEN st
    ELSE LET entity_name == var.entity[1]
             outputs == DictGet(st.entities, entity_name)
             copy == NewDict(RowObject(st.data, entity_name, i))
             augmented == Augment(copy.items, outputs, 1, i)
             val == evaluate(var.expr,
                             Context(d, st.computed, Some(augmented), Some(entity_name)))
             written == Written(st.data, [ref |-> copy.ref, items |-> augmented])
         IN ExecuteRows(var, rows, i + 1, d,
                IF ~val.ok THEN [st EXCEPT !.raised = Some(val), !.data = written]
                ELSE [st EXCEPT !.data = written,
                                !.entities =
                        DictSet(@, entity_name,
                                DictSet(outputs, var.path,
                                        Append(DictGet(outputs, var.path), val.value)))])

ExecutePath(ir, d, path, st) ==
    IF ~DictHas(ir.variables, path)
    THEN [st EXCEPT !.raised = Some(PythonError("KeyError", path))]
    ELSE LET var == DictGet(ir.variables, path)
         IN IF var.entity = None
            THEN LET val == evaluate(var.expr, Context(d, st.computed, None, None))
                 IN IF ~val.ok THEN [st EXCEPT !.raised = Some(val)]
                    ELSE [st EXCEPT !.computed = DictSet(@, path, val.value)]
            ELSE LET entity_name == var.entity[1]
                     rows == get_rows(d, entity_name)
                     e1 == IF DictHas(st.entities, entity_name) THEN st.entities
                           ELSE DictSet(st.entities, entity_name, <<>>)
                     e2 == DictSet(e1, entity_name,
                                   DictSet(DictGet(e1, entity_name), path, <<>>))
                 IN ExecuteRows(var, rows, 1, d, [st EXCEPT !.entities = e2])

RECURSIVE ExecuteFrom(_, _, _, _)
ExecuteFrom(ir, d, k, st) ==
    IF k > Len(ir.order) \/ st.raised # None THEN st
    ELSE ExecuteFrom(ir, d, k + 1, ExecutePath(ir, d, ir.order[k], st))

(* ctx = Context(data=data); entities = {} *)
Started(d) == [computed |-> <<>>, entities |-> <<>>, raised |-> None, data |-> d]

ExecuteLoop(ir, d) == ExecuteFrom(ir, d, 1, Started(d))

(* What execute returns or raises when its loop has ended. *)
Ended(st) ==
    IF st.raised # None THEN ExecRaised(st.raised[1])
    ELSE Result(st.computed, st.entities)

execute(ir, d) == Ended(ExecuteLoop(ir, d))

----------------------------------------------------------------------------
(* The inputs of the interpreter: programs over the entities person and    *)
(* household, and tables of rows.                                          *)

MaxRows == 3

Income == <<"income">>

Threshold == <<"gov", "threshold">>

Missing == <<"gov", "missing">>

Tax == <<"person", "tax">>

Levy == <<"person", "levy">>

Net == <<"person", "net">>

Rate == <<"person", "rate">>

Total == <<"person", "total">>

Bonus == <<"person", "bonus">>

Heads == <<"household", "heads">>

(* max(0, income - t) * 0.20 *)
TaxExpr(t) ==
    BinOp("*",
          Call(<<"max">>, <<Literal(Whole(0)), BinOp("-", Var(Income), t)>>),
          Literal(Num(20, 100)))

TaxDecl == VariableDecl(Tax, Some("person"), Always(TaxExpr(Literal(Whole(12500)))))

NetDecl == VariableDecl(Net, Some("person"), Always(BinOp("-", Var(Income), Var(Tax))))

RateDecl == VariableDecl(Rate, Some("person"), Always(BinOp("/", Var(Income), Var(Tax))))

ThresholdDecl == VariableDecl(Threshold, None, Always(Literal(Whole(12500))))

LevyDecl == VariableDecl(Levy, Some("person"), Always(TaxExpr(Var(Threshold))))

HeadsDecl ==
    VariableDecl(Heads, Some("household"), Always(BinOp("*", Var(<<"size">>), Literal(Whole(2)))))

ExecVarMenu ==
    {TaxDecl, NetDecl, RateDecl, ThresholdDecl, LevyDecl, HeadsDecl,
     VariableDecl(Total, Some("person"), Always(BinOp("+", Var(Income), Var(Bonus)))),
     VariableDecl(<<"gov", "a">>, None, Always(BinOp("+", Var(Missing), Literal(Whole(1))))),
     VariableDecl(<<"gov", "half">>, None,
                  Always(BinOp("/", Var(Threshold), Literal(Whole(2))))),
     VariableDecl(<<"gov", "own">>, None, Always(Var(Income)))}

ExecEntities ==
    <<EntityDecl("person", <<<<"income", "float">>>>, <<>>),
      EntityDecl("household", <<<<"size", "int">>>>, <<>>)>>

Program(decls) == <<Module(ExecEntities, decls, <<>>)>>

Distinct(xs) == \A i, j \in DOMAIN xs : i # j => xs[i] # xs[j]

MenuPrograms == {Program(ds) : ds \in {xs \in SeqUpTo(ExecVarMenu, MaxDecls) : Distinct(xs)}}

ScenarioPrograms ==
    {Program(<<TaxDecl>>), Program(<<NetDecl, RateDecl, TaxDecl>>),
     Program(<<LevyDecl, HeadsDecl, ThresholdDecl>>)}

Row(income) == <<[key |-> Income, value |-> Whole(income)]>>

PersonRows ==
    {<<>>, Row(10000), Row(20000), Row(50000),
     Row(20000) \o <<[key |-> Bonus, value |-> Whole(500)]>>}

HouseholdRows == <<<<[key |-> <<"size">>, value |-> Whole(3)]>>>>

Tables(person, household) ==
    (IF person = None THEN <<>> ELSE <<[key |-> "person", value |-> person[1]]>>)
    \o (IF household THEN <<[key |-> "household", value |-> HouseholdRows]>> ELSE <<>>)

AllData ==
    {Tables(person, household) :
        person \in {None} \cup {Some(rows) : rows \in SeqUpTo(PersonRows, MaxRows)},
        household \in BOOLEAN}

SmallData ==
    {Tables(person, TRUE) :
        person \in {None, Some(<<>>), Some(<<Row(10000), Row(20000), Row(50000)>>),
                    Some(<<Row(50000), <<>>>>),
                    Some(<<Row(20000) \o <<[key |-> Bonus, value |-> Whole(500)]>>>>)}}

(* Divisions of one literal by another. *)
Quotient == <<"gov", "q">>

DivValues ==
    {Whole(0), Whole(1), Whole(-3), Num(1, 2), Whole(12500), Bool(TRUE), Bool(FALSE)}

DivisionPrograms ==
    {Program(<<VariableDecl(Quotient, None, Always(BinOp("/", Literal(l), Literal(r))))>>) :
        l \in DivValues, r \in DivValues}

ExecOrder == <<Threshold, Missing, Tax, Levy, Net, Rate, Total, Bonus, Heads>>

Reverse(xs) == [i \in DOMAIN xs |-> xs[Len(xs) + 1 - i]]

----------------------------------------------------------------------------
(* The interpreter's state machine: a Compiler is constructed over a       *)
(* program, compile returns an IR, and Executor(ir).execute(data) runs it. *)

ExecInit ==
    /\ \/ /\ modules \in MenuPrograms
          /\ data \in SmallData
          /\ set_order \in {ExecOrder, Reverse(ExecOrder)}
       \/ /\ modules \in ScenarioPrograms
          /\ data \in AllData
          /\ set_order = ExecOrder
       \/ /\ modules \in DivisionPrograms
          /\ data \in {Tables(None, FALSE), Tables(Some(<<Row(10000)>>), FALSE)}
          /\ set_order = ExecOrder
    /\ as_of = 1
    /\ schema = Schema
    /\ var_decls = <<>>
    /\ amendments = <<>>
    /\ outcome = NotCalled
    /\ compiles = 0
    /\ exec_result = NotExecuted
    /\ NoModels
    /\ errors = NotValidated
    /\ cut_call = NoCall
    /\ cut_result = NotCut
    /\ source = NoSource
    /\ parsed = NotParsed
    /\ cache_dir = NoProjects
    /\ calls = NoCalls

Execute ==
    /\ outcome.status = "returned"
    /\ \E st \in {ExecuteLoop(outcome.ir, data)} :
          /\ exec_result' = Ended(st)
          /\ data' = st.data
    /\ UNCHANGED <<modules, set_order, schema, var_decls, amendments, as_of, outcome,
                   compiles, reform_modules, baseline, reform, returned, errors,
                   cut_call, cut_result,
                   source, parsed,
                   cache_dir, calls>>

ExecNext == Compile \/ Execute

ExecSpec == ExecInit /\ [][ExecNext]_vars

----------------------------------------------------------------------------
(* The '/'-paths that some resolved expression refers to and no variable   *)
(* declares.                                                               *)
UndeclaredRefs ==
    UNION {_find_deps(ResolvedExpr(u)) : u \in DeclaredPaths} \ DeclaredPaths

Executed == exec_result.status # "none"

(* C12: a reference to a '/'-path that no variable declares is no compile  *)
(* error, and an execution that fails because of that path fails with the  *)
(* runtime error 'undefined: <path>', in no other way.                     *)
C12_UndeclaredPathIsUndefinedAtRunTime ==
    /\ FirstCall /\ NoOtherError /\ (\A p \in DeclaredPaths : ~OnCycle(p))
          => outcome.status = "returned"
    /\ Executed /\ exec_result.status = "raised" /\ exec_result.error.path \in UndeclaredRefs
          => exec_result.error.kind = "undefined"

----------------------------------------------------------------------------
(* The context in which the run evaluated the k-th path of the IR order,   *)
(* read off the IR, the data and the returned Result.                      *)

Order == outcome.ir.order

IRVar(k) == DictGet(outcome.ir.variables, Order[k])

ExecReturned == outcome.status = "returned" /\ exec_result.status = "returned"

ScalarsBefore(k) ==
    SelectSeq(exec_result.scalars, LAMBDA it : \E j \in 1..(k - 1) : Order[j] = it.key)

OutputsOf(entity) == DictGet(exec_result.entities, entity)

RECURSIVE RowBefore(_, _, _, _, _)
RowBefore(row, entity, k, i, j) ==
    IF j >= k THEN row
    ELSE RowBefore(IF IRVar(j).entity = Some(entity)
                   THEN DictSet(row, Order[j], DictGet(OutputsOf(entity), Order[j])[i])
                   ELSE row,
                   entity, k, i, j + 1)

ContextOfScalar(k) == Context(data, ScalarsBefore(k), None, None)

ContextOfRow(k, i) ==
    LET entity == IRVar(k).entity[1]
    IN Context(data, ScalarsBefore(k),
               Some(RowBefore(get_rows(data, entity)[i], entity, k, i, 1)), Some(entity))

IsDivision(expr) == expr.type = "binop" /\ expr.op = "/"

(* The value of l / r that the contract prescribes: 0 when r is 0, and     *)
(* otherwise the number q with q * r = l.                                  *)
IsQuotient(q, l, r) ==
    IF PyEq(r, Whole(0)) THEN q = Whole(0)
    ELSE /\ ~IsBool(q)
         /\ q.num * AsNum(r).num * AsNum(l).den = AsNum(l).num * q.den * AsNum(r).den

(* C13: a division whose operands evaluate, evaluates too: to 0 when the   *)
(* right operand is 0, whatever the left operand, and to the quotient      *)
(* otherwise.                                                              *)
C13_DivisionByZeroIsZero ==
    /\ Executed /\ modules \in DivisionPrograms => exec_result.status = "returned"
    /\ Executed /\ exec_result.status = "raised"
          => exec_result.error.kind # "ZeroDivisionError"
    /\ ExecReturned =>
          \A k \in DOMAIN Order :
              IsDivision(IRVar(k).expr) =>
                  IF IRVar(k).entity = None
                  THEN LET l == evaluate(IRVar(k).expr.left, ContextOfScalar(k))
                           r == evaluate(IRVar(k).expr.right, ContextOfScalar(k))
                       IN /\ l.ok /\ r.ok
                          /\ IsQuotient(DictGet(exec_result.scalars, Order[k]), l.value, r.value)
                  ELSE \A i \in DOMAIN get_rows(data, IRVar(k).entity[1]) :
                          LET l == evaluate(IRVar(k).expr.left, ContextOfRow(k, i))
                              r == evaluate(IRVar(k).expr.right, ContextOfRow(k, i))
                          IN /\ l.ok /\ r.ok
                             /\ IsQuotient(DictGet(OutputsOf(IRVar(k).entity[1]), Order[k])[i],
                                           l.value, r.value)

(* The case of C13: the literal -3 has been divided by the literal 0, and  *)
(* the result is 0.                                                        *)
C13_Witness ==
    /\ ExecReturned
    /\ modules \in DivisionPrograms
    /\ IRVar(1).expr.right.value = Whole(0)
    /\ IRVar(1).expr.left.value = Whole(-3)
    /\ DictGet(exec_result.scalars, Quotient) = Whole(0)

----------------------------------------------------------------------------
ExpectedAt(k, i) == evaluate(IRVar(k).expr, ContextOfRow(k, i))

ScenarioRows == <<Row(10000), Row(20000), Row(50000)>>

(* C14: a returned Result holds, for every entity-scoped variable, one     *)
(* value per input row of its entity, in row order; the i-th value is the  *)
(* expression evaluated on the i-th row augmented with the i-th values of  *)
(* the variables of the same entity that are earlier in the IR order.  So  *)
(* max(0, income - 12500) * 0.20 over the incomes 10000, 20000 and 50000   *)
(* gives 0, 1500 and 7500.                                                 *)
C14_OneValuePerRowOnAugmentedRow ==
    ExecReturned =>
        /\ \A k \in DOMAIN Order :
              IRVar(k).entity # None =>
                  LET entity == IRVar(k).entity[1]
                      rows == get_rows(data, entity)
                  IN /\ DictHas(exec_result.entities, entity)
                     /\ DictHas(OutputsOf(entity), Order[k])
                     /\ Len(DictGet(OutputsOf(entity), Order[k])) = Len(rows)
                     /\ \A i \in DOMAIN rows :
                           ExpectedAt(k, i) = Ok(DictGet(OutputsOf(entity), Order[k])[i])
        /\ modules = Program(<<TaxDecl>>) /\ get_rows(data, "person") = ScenarioRows
              => DictGet(OutputsOf("person"), Tax) = <<Whole(0), Whole(1500), Whole(7500)>>

(* The case of C14: three rows with different incomes, a tax and a net     *)
(* income that is computed from the tax of the same row.                   *)
C14_Witness ==
    /\ ExecReturned
    /\ get_rows(data, "person") = ScenarioRows
    /\ DictHas(exec_result.entities, "person")
    /\ DictHas(OutputsOf("person"), Net)
    /\ DictGet(OutputsOf("person"), Tax) = <<Whole(0), Whole(1500), Whole(7500)>>
    /\ DictGet(OutputsOf("person"), Net) = <<Whole(10000), Whole(18500), Whole(42500)>>

----------------------------------------------------------------------------
(* The native driver (src/src/rac/native.py) and the model interface       *)
(* (src/src/rac/model.py).  The build cache is empty and the toolchain is  *)
(* installed; input tables are lists of row dicts.                         *)

(* The loop of compile_to_binary and of CompiledBinary.__init__ that lists *)
(* the output paths of every entity in IR order.                           *)
RECURSIVE EntityOutputsFrom(_, _, _)
EntityOutputsFrom(ir, k, acc) ==
    IF k > Len(ir.order) \/ acc.raised # None THEN acc
    ELSE LET path == ir.order[k]
         IN IF ~DictHas(ir.variables, path)
            THEN [acc EXCEPT !.raised = Some(PythonError("KeyError", path))]
            ELSE LET var == DictGet(ir.variables, path)
                     listed == IF var.entity # None /\ DictHas(acc.outputs, var.entity[1])
                               THEN DictGet(acc.outputs, var.entity[1]) ELSE <<>>
                 IN EntityOutputsFrom(ir, k + 1,
                       IF var.entity = None THEN acc
                       ELSE [acc EXCEPT !.outputs =
                                DictSet(@, var.entity[1], Append(listed, path))])

EntityOutputs(ir) == EntityOutputsFrom(ir, 1, [outputs |-> <<>>, raised |-> None])

EntitySchemas(ir, entity_outputs) ==
    [e \in DOMAIN entity_outputs |->
        [key |-> entity_outputs[e].key,
         value |-> IF DictHas(ir.schema_.entities, entity_outputs[e].key)
                   THEN LET fields == DictGet(ir.schema_.entities, entity_outputs[e].key).fields
                        IN [f \in DOMAIN fields |-> fields[f].key]
                   ELSE <<>>]]

CompiledBinary(ir, entity_schemas) ==
    [ir |-> ir, entity_schemas |-> entity_schemas, entity_outputs |-> EntityOutputs(ir).outputs]

Model(ir, binary) == [status |-> "returned", error |-> NoError, ir |-> ir, binary |-> binary]

ModelRaised(err) == [NoModel EXCEPT !.status = "raised", !.error = err]

compile_to_binary(ir) ==
    LET listed == EntityOutputs(ir)
    IN IF listed.raised # None THEN ModelRaised(listed.raised[1])
       ELSE Model(ir, CompiledBinary(ir, EntitySchemas(ir, listed.outputs)))

(* Model.from_source over parsed sources: a new Compiler for every call. *)
from_source(mods, T, ord) ==
    LET c == compile([schema |-> Schema, var_decls |-> <<>>, amendments |-> <<>>,
                      error |-> NoError], mods, T, ord).result
    IN IF c.status = "raised" THEN ModelRaised(c.error) ELSE compile_to_binary(c.ir)

(* Model.scalars *)
RECURSIVE ScalarsFrom(_, _, _)
ScalarsFrom(ir, k, st) ==
    IF k > Len(ir.order) \/ st.raised # None THEN st
    ELSE LET path == ir.order[k]
         IN ScalarsFrom(ir, k + 1,
               IF ~DictHas(ir.variables, path)
               THEN [st EXCEPT !.raised = Some(PythonError("KeyError", path))]
               ELSE IF DictGet(ir.variables, path).entity # None THEN st
               ELSE LET val == evaluate(DictGet(ir.variables, path).expr,
                                        Context(<<>>, st.computed, None, None))
                    IN IF ~val.ok THEN [st EXCEPT !.raised = Some(val)]
                       ELSE [st EXCEPT !.computed = DictSet(@, path, val.value)])

scalars(model) == ScalarsFrom(model.ir, 1, [computed |-> <<>>, raised |-> None])

----------------------------------------------------------------------------
(* The generated program.  Its source generator is not part of the         *)
(* sources at hand; the program is modelled after the description of the   *)
(* code generator: Scalars::compute() gives the scalar paths their values, *)
(* and compute(input, scalars) assigns the entity's output paths in IR     *)
(* order, each expression lowered with the interpreter's semantics and     *)
(* referring to earlier outputs, input fields and scalars.  Every value is *)
(* an f64.  A failure of the program is a non-zero exit.                   *)

NativeScalars(ir) == ScalarsFrom(ir, 1, [computed |-> <<>>, raised |-> None])

RECURSIVE NativeCompute(_, _, _, _, _, _)
NativeCompute(ir, entity_name, output_fields, scalar_values, j, st) ==
    IF j > Len(output_fields) \/ st.raised # None THEN st
    ELSE LET val == evaluate(DictGet(ir.variables, output_fields[j]).expr,
                             Context(<<>>, scalar_values, Some(st.row), Some(entity_name)))
         IN NativeCompute(ir, entity_name, output_fields, scalar_values, j + 1,
               IF ~val.ok THEN [st EXCEPT !.raised = Some(val)]
               ELSE [st EXCEPT !.row = DictSet(@, output_fields[j], AsNum(val.value)),
                               !.out = Append(@, AsNum(val.value))])

(* The cast of an f64 to i64: towards zero. *)
AsI64(x) == Whole(IF x.num >= 0 THEN x.num \div x.den ELSE -((-x.num) \div x.den))

(* The field reads of the generated main: the i-th f64 of the row is the   *)
(* i-th input field, cast to i64 when the schema types the field int.      *)
InputRecord(ir, entity_name, input_fields, row) ==
    LET fields == IF DictHas(ir.schema_.entities, entity_name)
                  THEN DictGet(ir.schema_.entities, entity_name).fields ELSE <<>>
    IN [i \in DOMAIN input_fields |->
          [key |-> <<input_fields[i]>>,
           value |-> IF DictHas(fields, input_fields[i])
                        /\ DictGet(fields, input_fields[i]).dtype = "int"
                     THEN AsI64(row[i]) ELSE row[i]]]

(* One invocation of the binary for an entity: the output rows, or the     *)
(* failure.                                                                *)
RECURSIVE NativeRows(_, _, _, _, _, _)
NativeRows(binary, entity_name, input_arr, scalar_values, i, st) ==
    IF i > Len(input_arr) \/ st.raised # None THEN st
    ELSE LET input_fields == IF DictHas(binary.entity_schemas, entity_name)
                             THEN DictGet(binary.entity_schemas, entity_name) ELSE <<>>
             o == NativeCompute(binary.ir, entity_name,
                                DictGet(binary.entity_outputs, entity_name), scalar_values, 1,
                                [row |-> InputRecord(binary.ir, entity_name, input_fields,
                                                     input_arr[i]),
                                 out |-> <<>>, raised |-> None])
         IN NativeRows(binary, entity_name, input_arr, scalar_values, i + 1,
               IF o.raised # None THEN [st EXCEPT !.raised = o.raised]
               ELSE [st EXCEPT !.out = Append(@, o.out)])

NativeMain(binary, entity_name, input_arr) ==
    LET sc == NativeScalars(binary.ir)
    IN IF sc.raised # None THEN [out |-> <<>>, raised |-> sc.raised]
       ELSE NativeRows(binary, entity_name, input_arr, sc.computed, 1,
                       [out |-> <<>>, raised |-> None])

----------------------------------------------------------------------------
(* CompiledBinary.run over lists of row dicts, and Model.run. *)

RowGet(row, key, default) == IF DictHas(row, key) THEN DictGet(row, key) ELSE default

(* Variant: every row of the input array is read from the first row. *)
InputArrayOfFirstRow(input_fields, rows) ==
    [i \in DOMAIN rows |->
        [f \in DOMAIN input_fields |-> AsNum(RowGet(rows[1], <<input_fields[f]>>, Whole(0)))]]

(* float(row.get(field, 0.0)) for every declared field of every row *)
InputArray(input_fields, rows) ==
    [i \in DOMAIN rows |->
        [f \in DOMAIN input_fields |-> AsNum(RowGet(rows[i], <<input_fields[f]>>, Whole(0)))]]

RECURSIVE RunFrom(_, _, _, _)
RunFrom(binary, d, k, st) ==
    IF k > Len(d) \/ st.raised # None THEN st
    ELSE LET entity_name == d[k].key
             rows == d[k].value
             input_fields == IF DictHas(binary.entity_schemas, entity_name)
                             THEN DictGet(binary.entity_schemas, entity_name) ELSE <<>>
             o == NativeMain(binary, entity_name, InputArray(input_fields, rows))
         IN RunFrom(binary, d, k + 1,
               IF ~DictHas(binary.entity_outputs, entity_name) THEN st
               ELSE IF Len(rows) = 0
               THEN [st EXCEPT !.results = DictSet(@, entity_name, <<>>)]
               ELSE IF o.raised # None
               THEN [st EXCEPT !.raised = Some(PythonError("RuntimeError", <<entity_name>>))]
               ELSE [st EXCEPT !.results = DictSet(@, entity_name, o.out)])

binary_run(binary, d) == RunFrom(binary, d, 1, [results |-> <<>>, raised |-> None])

RunResult(arrays, output_names) == [arrays |-> arrays, output_names |-> output_names]

(* Model.run; arrays is what CompiledBinary.run returned, named once as    *)
(* the element of a singleton.                                             *)
run(model, d) ==
    LET Returning(r) ==
            IF r.raised # None THEN r.raised[1]
            ELSE Ok(RunResult(r.results,
                              [e \in DOMAIN r.results |->
                                  [key |-> r.results[e].key,
                                   value |-> DictGet(model.binary.entity_outputs,
                                                     r.results[e].key)]]))
    IN CHOOSE out \in {Returning(r) : r \in {binary_run(model.binary, d)}} : TRUE

----------------------------------------------------------------------------
(* Model.compare, CompareResult.gain and CompareResult.summary (without an *)
(* income column).                                                         *)

CompareResult(baseline_result, reform_result, n_rows) ==
    [baseline |-> baseline_result, reform |-> reform_result, n_rows |-> n_rows]

compare(model, other, d) ==
    LET Returning(baseline_result, reform_result) ==
            IF ~baseline_result.ok THEN baseline_result
            ELSE IF ~reform_result.ok THEN reform_result
            ELSE Ok(CompareResult(baseline_result.value, reform_result.value,
                                  [e \in DOMAIN baseline_result.value.arrays |->
                                      [key |-> baseline_result.value.arrays[e].key,
                                       value |-> Len(baseline_result.value.arrays[e].value)]]))
    IN CHOOSE out \in {Returning(results[1], results[2]) :
                          results \in {[m \in 1..2 |-> run(IF m = 1 THEN model ELSE other, d)]}} :
           TRUE

Index(names, x) == CHOOSE i \in DOMAIN names : names[i] = x /\ \A j \in 1..(i - 1) : names[j] # x

Contains(names, x) == \E i \in DOMAIN names : names[i] = x

(* Variant: the gain is the reform's column. *)
GainOfReform(cr, entity, variable) ==
    IF ~DictHas(cr.baseline.output_names, entity) \/ ~DictHas(cr.reform.output_names, entity)
    THEN PythonError("KeyError", <<entity>>)
    ELSE LET r_names == DictGet(cr.reform.output_names, entity)
             r_arr == DictGet(cr.reform.arrays, entity)
         IN IF ~Contains(r_names, variable)
            THEN PythonError("ValueError", variable)
            ELSE Ok([i \in DOMAIN r_arr |-> r_arr[i][Index(r_names, variable)]])

(* Variant: the gain is baseline minus reform. *)
GainOfBaseline(cr, entity, variable) ==
    IF ~DictHas(cr.baseline.output_names, entity) \/ ~DictHas(cr.reform.output_names, entity)
    THEN PythonError("KeyError", <<entity>>)
    ELSE LET b_names == DictGet(cr.baseline.output_names, entity)
             r_names == DictGet(cr.reform.output_names, entity)
             b_arr == DictGet(cr.baseline.arrays, entity)
             r_arr == DictGet(cr.reform.arrays, entity)
         IN IF ~Contains(b_names, variable) \/ ~Contains(r_names, variable)
            THEN PythonError("ValueError", variable)
            ELSE Ok([i \in DOMAIN b_arr |->
                        PySub(b_arr[i][Index(b_names, variable)],
                              r_arr[i][Index(r_names, variable)])])

gain(cr, entity, variable) ==
    IF ~DictHas(cr.baseline.output_names, entity) \/ ~DictHas(cr.reform.output_names, entity)
    THEN PythonError("KeyError", <<entity>>)
    ELSE LET b_names == DictGet(cr.baseline.output_names, entity)
             r_names == DictGet(cr.reform.output_names, entity)
             b_arr == DictGet(cr.baseline.arrays, entity)
             r_arr == DictGet(cr.reform.arrays, entity)
         IN IF ~Contains(b_names, variable) \/ ~Contains(r_names, variable)
            THEN PythonError("ValueError", variable)
            ELSE Ok([i \in DOMAIN b_arr |->
                        PySub(r_arr[i][Index(r_names, variable)],
                              b_arr[i][Index(b_names, variable)])])

RECURSIVE SumFrom(_, _)
SumFrom(xs, i) == IF i > Len(xs) THEN Whole(0) ELSE PyAdd(xs[i], SumFrom(xs, i + 1))

(* (gain > 1).sum() and (gain < -1).sum() *)
Winners(g) == Cardinality({i \in DOMAIN g : PyLt(Whole(1), g[i])})

Losers(g) == Cardinality({i \in DOMAIN g : PyLt(g[i], Whole(-1))})

(* The result of a numpy division by a count of 0. *)
NaN == [nan |-> TRUE]

summary(cr, entity, variable) ==
    LET Returning(g) ==
            LET n == Len(g.value)
                winners == Winners(g.value)
                losers == Losers(g.value)
            IN IF ~g.ok THEN g
               ELSE Ok([n |-> n,
                        total_annual |-> PyMul(SumFrom(g.value, 1), Whole(12)),
                        mean_monthly |-> IF n = 0 THEN NaN
                                         ELSE PyTrueDiv(SumFrom(g.value, 1), Whole(n)),
                        winners |-> winners,
                        losers |-> losers,
                        winners_pct |-> IF n = 0 THEN NaN ELSE Num(100 * winners, n),
                        losers_pct |-> IF n = 0 THEN NaN ELSE Num(100 * losers, n)])
    IN CHOOSE out \in {Returning(g) : g \in {gain(cr, entity, variable)}} : TRUE

----------------------------------------------------------------------------
(* The inputs of the model interface: a baseline program, the sources the  *)
(* reform adds to it, and the data.                                        *)

TaxReform == <<Module(<<>>, <<>>, <<AmendDecl(Tax, Always(TaxExpr(Literal(Whole(15000)))))>>)>>

ThresholdReform ==
    <<Module(<<>>, <<>>, <<AmendDecl(Threshold, Always(Literal(Whole(15000))))>>)>>

OwnDecl == VariableDecl(<<"gov", "own">>, None, Always(Var(Income)))

HalfDecl ==
    VariableDecl(<<"gov", "half">>, None, Always(BinOp("/", Var(Threshold), Literal(Whole(2)))))

UndeclaredDecl ==
    VariableDecl(<<"gov", "a">>, None, Always(BinOp("+", Var(Missing), Literal(Whole(1)))))

ModelPrograms ==
    ScenarioPrograms
    \cup {Program(<<LevyDecl>>), Program(<<TaxDecl, OwnDecl>>),
          Program(<<TaxDecl, ThresholdDecl, HalfDecl>>), Program(<<UndeclaredDecl>>)}

ModelRows == {<<>>, Row(10000), Row(20000), Row(50000)}

ModelData == {Tables(Some(rows), FALSE) : rows \in SeqUpTo(ModelRows, MaxRows)}

SummaryEntities == {"person", "household"}

SummaryVariables == {Tax, Levy, Net, Heads}

----------------------------------------------------------------------------
(* The state machine of the model interface: the baseline and the reform   *)
(* have been made by Model.from_source, the reform from the baseline's     *)
(* sources followed by its own; then scalars, run and compare are called   *)
(* on the baseline, and gain and summary on the CompareResult returned     *)
(* last; the interpreter is run on the baseline's IR and the same data.    *)

ModelInit ==
    /\ \/ /\ modules \in ModelPrograms
          /\ reform_modules \in {<<>>, TaxReform, ThresholdReform}
          /\ data \in SmallData
       \/ /\ modules \in {Program(<<TaxDecl>>), Program(<<NetDecl, RateDecl, TaxDecl>>)}
          /\ reform_modules = TaxReform
          /\ data \in ModelData
    /\ set_order = ExecOrder
    /\ as_of = 1
    /\ schema = Schema
    /\ var_decls = <<>>
    /\ amendments = <<>>
    /\ outcome = NotCalled
    /\ compiles = 0
    /\ exec_result = NotExecuted
    /\ baseline = from_source(modules, as_of, set_order)
    /\ reform = from_source(modules \o reform_modules, as_of, set_order)
    /\ returned = NotReturned
    /\ errors = NotValidated
    /\ cut_call = NoCall
    /\ cut_result = NotCut
    /\ source = NoSource
    /\ parsed = NotParsed
    /\ cache_dir = NoProjects
    /\ calls = NoCalls

Returns(op, args, out) ==
    /\ returned' = [op |-> op, args |-> args, outcome |-> out]
    /\ UNCHANGED <<modules, set_order, schema, var_decls, amendments, as_of, outcome,
                   compiles, data, exec_result, reform_modules, baseline, reform, errors,
                   cut_call, cut_result,
                   source, parsed,
                   cache_dir, calls>>

Scalars ==
    /\ baseline.status = "returned"
    /\ LET s == scalars(baseline)
       IN Returns("scalars", <<>>, IF s.raised # None THEN s.raised[1] ELSE Ok(s.computed))

Run ==
    /\ baseline.status = "returned"
    /\ Returns("run", <<>>, run(baseline, data))

Compare ==
    /\ baseline.status = "returned"
    /\ \E other \in {"self", "reform"} :
          /\ other = "reform" => reform.status = "returned"
          /\ Returns("compare", [other |-> other],
                     compare(baseline, IF other = "self" THEN baseline ELSE reform, data))

Gain ==
    /\ returned.op = "compare"
    /\ returned.outcome.ok
    /\ \E entity \in SummaryEntities, variable \in SummaryVariables :
          Returns("gain",
                  [other |-> returned.args.other, entity |-> entity, variable |-> variable],
                  gain(returned.outcome.value, entity, variable))

Summary ==
    /\ returned.op = "compare"
    /\ returned.outcome.ok
    /\ \E entity \in SummaryEntities, variable \in SummaryVariables :
          Returns("summary",
                  [other |-> returned.args.other, entity |-> entity, variable |-> variable],
                  summary(returned.outcome.value, entity, variable))

(* executor.run(ir, data) on the IR of the baseline *)
Interpret ==
    /\ baseline.status = "returned"
    /\ \E st \in {ExecuteLoop(baseline.ir, data)} :
          /\ exec_result' = Ended(st)
          /\ data' = st.data
    /\ UNCHANGED <<modules, set_order, schema, var_decls, amendments, as_of, outcome,
                   compiles, reform_modules, baseline, reform, returned, errors,
                   cut_call, cut_result,
                   source, parsed,
                   cache_dir, calls>>

ModelNext == Scalars \/ Run \/ Compare \/ Gain \/ Summary \/ Interpret

ModelSpec == ModelInit /\ [][ModelNext]_vars

----------------------------------------------------------------------------
(* Permutations of the rows of one entity table. *)

Perms(n) == {pi \in [1..n -> 1..n] : \A i, j \in 1..n : i # j => pi[i] # pi[j]}

Permuted(xs, pi) == [i \in DOMAIN xs |-> xs[pi[i]]]

PermuteRows(d, entity, pi) ==
    [e \in DOMAIN d |->
        IF d[e].key = entity THEN [key |-> entity, value |-> Permuted(d[e].value, pi)]
        ELSE d[e]]

(* C15: for every permutation of the rows of one entity table, a run that  *)
(* returns on the data returns on the permuted data too, with the output   *)
(* array of every variable of that entity permuted in the same way and     *)
(* every other output unchanged; a run that fails on the data fails on the *)
(* permuted data.  Both for Model.run, the native path, and for the        *)
(* interpreter.                                                            *)
C15_RowPermutationPermutesOutputs ==
    \A e \in DOMAIN data :
        \A pi \in Perms(Len(data[e].value)) :
            LET entity == data[e].key
                d2 == PermuteRows(data, entity, pi)
            IN /\ returned.op = "run" =>
                    LET r2 == run(baseline, d2)
                    IN IF ~returned.outcome.ok THEN ~r2.ok
                       ELSE /\ r2.ok
                            /\ r2.value.output_names = returned.outcome.value.output_names
                            /\ KeySet(r2.value.arrays) = KeySet(returned.outcome.value.arrays)
                            /\ \A x \in KeySet(r2.value.arrays) :
                                  DictGet(r2.value.arrays, x) =
                                      IF x = entity
                                      THEN Permuted(DictGet(returned.outcome.value.arrays, x), pi)
                                      ELSE DictGet(returned.outcome.value.arrays, x)
               /\ exec_result.status # "none" =>
                    LET x2 == execute(baseline.ir, d2)
                    IN IF exec_result.status = "raised" THEN x2.status = "raised"
                       ELSE /\ x2.status = "returned"
                            /\ x2.scalars = exec_result.scalars
                            /\ KeySet(x2.entities) = KeySet(exec_result.entities)
                            /\ \A x \in KeySet(x2.entities) :
                                  LET was == DictGet(exec_result.entities, x)
                                      now == DictGet(x2.entities, x)
                                  IN /\ KeySet(now) = KeySet(was)
                                     /\ \A v \in KeySet(now) :
                                           DictGet(now, v) =
                                               IF x = entity
                                               THEN Permuted(DictGet(was, v), pi)
                                               ELSE DictGet(was, v)

(* The case of C15: both paths have run a tax, a net income and a rate on  *)
(* three rows of different incomes, so that a permutation of the rows      *)
(* changes the outputs.                                                    *)
C15_Witness ==
    /\ returned.op = "run"
    /\ returned.outcome.ok
    /\ exec_result.status = "returned"
    /\ get_rows(data, "person") = <<Row(50000), Row(10000), Row(20000)>>
    /\ DictGet(returned.outcome.value.output_names, "person") = <<Tax, Net, Rate>>
    /\ DictGet(returned.outcome.value.arrays, "person")
          = <<<<Whole(7500), Whole(42500), Num(20, 3)>>, <<Whole(0), Whole(10000), Whole(0)>>,
              <<Whole(1500), Whole(18500), Num(40, 3)>>>>
    /\ DictGet(DictGet(exec_result.entities, "person"), Net)
          = <<Whole(42500), Whole(10000), Whole(18500)>>

----------------------------------------------------------------------------
(* The evaluation of one scalar variable in a run of the interpreter: the  *)
(* run reaches the k-th path of the order when nothing before it has       *)
(* raised, and the outcome of the path is its value or the error it        *)
(* raises.                                                                 *)

RunTo(ir, d, n) ==
    ExecuteFrom([ir EXCEPT !.order = SubSeq(ir.order, 1, n)], d, 1, Started(d))

Reached(ir, d, k) == RunTo(ir, d, k - 1).raised = None

ScalarOutcomeIn(ir, d, k) ==
    LET st == RunTo(ir, d, k)
    IN IF st.raised # None THEN st.raised[1] ELSE Ok(DictGet(st.computed, ir.order[k]))

IsScalar(ir, k) ==
    DictHas(ir.variables, ir.order[k]) /\ DictGet(ir.variables, ir.order[k]).entity = None

OtherData == SmallData \cup {<<>>}

----------------------------------------------------------------------------
(* The CompareResult a gain or a summary was asked of. *)
Compared ==
    compare(baseline, IF returned.args.other = "self" THEN baseline ELSE reform, data).value

----------------------------------------------------------------------------
(* The reform comparison: the tax max(0, income - 12500) * 0.20 with the   *)
(* 12500 amended to 15000, either in the formula of person/tax or in the   *)
(* scalar gov/threshold that person/levy refers to, on rows of income      *)
(* 10000, 20000 and 50000.                                                 *)
ReformScenario(variable) ==
    /\ returned.args = [other |-> "reform", entity |-> "person", variable |-> variable]
    /\ get_rows(data, "person") = ScenarioRows
    /\ \/ /\ variable = Tax
          /\ modules = Program(<<TaxDecl>>)
          /\ reform_modules = TaxReform
       \/ /\ variable = Levy
          /\ modules = Program(<<LevyDecl, HeadsDecl, ThresholdDecl>>)
          /\ reform_modules = ThresholdReform

(* C18 as stated: the gain is [0, 500, 500], with 2 winners and 0 losers.  *)
C18_ReformGainsFiveHundred ==
    \A variable \in {Tax, Levy} :
        ReformScenario(variable) =>
            /\ returned.op = "gain" =>
                  returned.outcome = Ok(<<Whole(0), Whole(500), Whole(500)>>)
            /\ returned.op = "summary" =>
                  /\ returned.outcome.ok
                  /\ returned.outcome.value.winners = 2
                  /\ returned.outcome.value.losers = 0

(* C18: the baseline tax is 0, 1500, 7500 and the reform tax 0, 1000,      *)
(* 7000, so the gain, reform minus baseline per row, is [0, -500, -500],   *)
(* and the summary reports 0 winners and 2 losers among 3 rows, with an    *)
(* annual total of -12000.                                                 *)
C18_ReformLosesFiveHundred ==
    \A variable \in {Tax, Levy} :
        ReformScenario(variable) =>
            /\ DictGet(Compared.baseline.arrays, "person")
                  = <<<<Whole(0)>>, <<Whole(1500)>>, <<Whole(7500)>>>>
            /\ DictGet(Compared.reform.arrays, "person")
                  = <<<<Whole(0)>>, <<Whole(1000)>>, <<Whole(7000)>>>>
            /\ returned.op = "gain" =>
                  returned.outcome = Ok(<<Whole(0), Whole(-500), Whole(-500)>>)
            /\ returned.op = "summary" =>
                  /\ returned.outcome.ok
                  /\ returned.outcome.value.n = 3
                  /\ returned.outcome.value.winners = 0
                  /\ returned.outcome.value.losers = 2
                  /\ returned.outcome.value.total_annual = Whole(-12000)

(* The case of C18: the summary of person/tax has been returned for the    *)
(* comparison of the scenario.                                             *)
C18_Witness ==
    /\ ReformScenario(Tax)
    /\ returned.op = "summary"
    /\ returned.outcome.ok
    /\ returned.outcome.value.losers = 2

----------------------------------------------------------------------------
(* C19: when the native path and the interpreter have both been run on the *)
(* IR and the data, either both fail or both return, and then every entity *)
(* of the native result has, in every row and every column, the column     *)
(* being the output paths of the entity in IR order, the value the         *)
(* interpreter's Result holds for that path and row.                       *)
C19_NativeEqualsInterpreter ==
    returned.op = "run" /\ exec_result.status # "none" =>
        /\ returned.outcome.ok <=> exec_result.status = "returned"
        /\ returned.outcome.ok =>
              \A e \in DOMAIN returned.outcome.value.arrays :
                  LET entity == returned.outcome.value.arrays[e].key
                      arr == returned.outcome.value.arrays[e].value
                      names == DictGet(returned.outcome.value.output_names, entity)
                  IN /\ names = SelectSeq(baseline.ir.order,
                                          LAMBDA path :
                                              DictGet(baseline.ir.variables, path).entity
                                                  = Some(entity))
                     /\ DictHas(exec_result.entities, entity)
                     /\ \A i \in DOMAIN arr :
                           \A c \in DOMAIN names :
                               LET column == DictGet(DictGet(exec_result.entities, entity),
                                                     names[c])
                               IN /\ Len(column) = Len(arr)
                                  /\ arr[i][c] = AsNum(column[i])

----------------------------------------------------------------------------
(* Data validation (src/src/rac/schema.py).  The schema given to           *)
(* validate_data is made of the classes of schema.py: a field has a name,  *)
(* a dtype, nullable and a default, an entity a primary key, fields and    *)
(* foreign keys.  A row is a dict from field names, written as paths of    *)
(* one segment, to values; the value None of a row is Null.                *)

Null == [null |-> TRUE]

SchemaField(name, dtype, nullable, default) ==
    [name |-> name, dtype |-> dtype, nullable |-> nullable, default |-> default]

ForeignKey(name, target, target_field) ==
    [name |-> name, target |-> target, target_field |-> target_field]

SchemaEntity(name, primary_key, fields, foreign_keys) ==
    [name |-> name, primary_key |-> primary_key, fields |-> fields,
     foreign_keys |-> foreign_keys]

(* Data.build_index: of every table, the rows by the value of their "id".  *)
RECURSIVE IndexRows(_, _, _)
IndexRows(rows, i, acc) ==
    IF i > Len(rows) THEN acc
    ELSE LET pk == RowGet(rows[i], <<"id">>, Null)
         IN IndexRows(rows, i + 1, IF pk # Null THEN DictSet(acc, pk, rows[i]) ELSE acc)

build_index(tables) ==
    [e \in DOMAIN tables |->
        [key |-> tables[e].key, value |-> IndexRows(tables[e].value, 1, <<>>)]]

Data(tables) == [tables |-> tables, index |-> build_index(tables)]

(* Data.get_row: the row, or None. *)
get_row(d, entity, pk) ==
    IF DictHas(d.index, entity) /\ DictHas(DictGet(d.index, entity), pk)
    THEN Some(DictGet(DictGet(d.index, entity), pk))
    ELSE None

(* The messages of validate_data; rows are counted from 0. *)
ValidationError(kind, entity_name, i, name) ==
    [kind |-> kind, entity |-> entity_name, row |-> i, name |-> name]

RECURSIVE Flatten(_, _)
Flatten(seqs, i) == IF i > Len(seqs) THEN <<>> ELSE seqs[i] \o Flatten(seqs, i + 1)

RowErrors(entity, entity_name, i, row, d) ==
    (IF ~DictHas(row, <<entity.primary_key>>)
     THEN <<ValidationError("missing primary key", entity_name, i, entity.primary_key)>>
     ELSE <<>>)
    \o Flatten([f \in DOMAIN entity.fields |->
                   LET field_name == entity.fields[f].key
                       field == entity.fields[f].value
                   IN IF ~DictHas(row, <<field_name>>) /\ ~field.nullable
                         /\ field.default = None
                      THEN <<ValidationError("missing required field", entity_name, i,
                                             field_name)>>
                      ELSE <<>>], 1)
    \o Flatten([k \in DOMAIN entity.foreign_keys |->
                   LET fk_name == entity.foreign_keys[k].key
                       fk == entity.foreign_keys[k].value
                   IN IF DictHas(row, <<fk_name>>)
                         /\ DictGet(row, <<fk_name>>) # Null
                         /\ get_row(d, fk.target, DictGet(row, <<fk_name>>)) = None
                      THEN <<ValidationError("foreign key", entity_name, i, fk_name)>>
                      ELSE <<>>], 1)

validate_data(s, d) ==
    Flatten([t \in DOMAIN d.tables |->
                LET entity_name == d.tables[t].key
                    rows == d.tables[t].value
                IN IF ~DictHas(s.entities, entity_name)
                   THEN <<ValidationError("unknown entity", entity_name, 0, "")>>
                   ELSE Flatten([i \in DOMAIN rows |->
                                    RowErrors(DictGet(s.entities, entity_name), entity_name,
                                              i - 1, rows[i], d)], 1)], 1)

----------------------------------------------------------------------------
(* The inputs of validation: a household, and persons that have an income  *)
(* and point to a household.  The primary key of the household is id or    *)
(* hid; the income is required, nullable, or has a default.                *)

MaxPersons == 2

HouseholdEntity(primary_key) == SchemaEntity("household", primary_key, <<>>, <<>>)

PersonEntity(nullable, default, target_field) ==
    SchemaEntity("person", "id",
                 <<[key |-> "income",
                    value |-> SchemaField("income", "float", nullable, default)]>>,
                 <<[key |-> "household_id",
                    value |-> ForeignKey("household_id", "household", target_field)]>>)

ValidateSchemas ==
    {[entities |-> <<[key |-> "household", value |-> HouseholdEntity(primary_key)],
                     [key |-> "person",
                      value |-> PersonEntity(nullable, default, primary_key)]>>] :
        primary_key \in {"id", "hid"}, nullable \in BOOLEAN,
        default \in {None, Some(Whole(0))}}

Cell(name, v) == <<[key |-> <<name>>, value |-> v]>>

HouseholdTables ==
    {<<>>, <<Cell("id", Whole(1))>>, <<Cell("hid", Whole(1))>>,
     <<Cell("id", Whole(1)) \o Cell("hid", Whole(2))>>,
     <<Cell("hid", Whole(1)), Cell("hid", Whole(2))>>,
     <<Cell("id", Whole(1)), Cell("id", Whole(2))>>}

PersonMenu ==
    {<<>>,
     Cell("id", Whole(1)),
     Cell("id", Whole(1)) \o Cell("income", Whole(100)),
     Cell("id", Whole(2)) \o Cell("income", Whole(100)) \o Cell("household_id", Null),
     Cell("id", Whole(3)) \o Cell("income", Whole(100)) \o Cell("household_id", Whole(1)),
     Cell("id", Whole(4)) \o Cell("income", Whole(100)) \o Cell("household_id", Whole(2)),
     Cell("id", Whole(5)) \o Cell("household_id", Whole(3)),
     Cell("income", Null) \o Cell("household_id", Whole(1))}

ValidateData ==
    {(IF household = None THEN <<>> ELSE <<[key |-> "household", value |-> household[1]]>>)
     \o <<[key |-> "person", value |-> persons]>>
     \o (IF benefit THEN <<[key |-> "benefit", value |-> <<Cell("id", Whole(1))>>]>> ELSE <<>>) :
        household \in {None} \cup {Some(t) : t \in HouseholdTables},
        persons \in SeqUpTo(PersonMenu, MaxPersons),
        benefit \in BOOLEAN}

----------------------------------------------------------------------------
(* The state machine of validation: a Schema and a Data have been made,    *)
(* the Data with its index, and validate_data is called on them.           *)

ValidateInit ==
    /\ schema \in ValidateSchemas
    /\ data \in ValidateData
    /\ modules = <<>>
    /\ set_order = <<>>
    /\ as_of = 1
    /\ var_decls = <<>>
    /\ amendments = <<>>
    /\ outcome = NotCalled
    /\ compiles = 0
    /\ exec_result = NotExecuted
    /\ NoModels
    /\ errors = NotValidated
    /\ cut_call = NoCall
    /\ cut_result = NotCut
    /\ source = NoSource
    /\ parsed = NotParsed
    /\ cache_dir = NoProjects
    /\ calls = NoCalls

Validate ==
    /\ errors' = [status |-> "returned", errors |-> validate_data(schema, Data(data))]
    /\ UNCHANGED <<modules, set_order, schema, var_decls, amendments, as_of, outcome,
                   compiles, data, exec_result, reform_modules, baseline, reform, returned,
                   cut_call, cut_result,
                   source, parsed,
                   cache_dir, calls>>

ValidateNext == Validate

ValidateSpec == ValidateInit /\ [][ValidateNext]_vars

----------------------------------------------------------------------------
(* What the data hold, read off the schema and the tables. *)

Reported(kind, entity_name, i, name) ==
    Contains(errors.errors, ValidationError(kind, entity_name, i, name))

KnownTables == {t \in DOMAIN data : DictHas(schema.entities, data[t].key)}

EntityOf(t) == DictGet(schema.entities, data[t].key)

RequiredFields(entity) ==
    {entity.fields[f].key : f \in {g \in DOMAIN entity.fields :
                                      /\ ~entity.fields[g].value.nullable
                                      /\ entity.fields[g].value.default = None}}

(* The primary keys of the rows of the table of an entity. *)
PrimaryKeys(entity_name) ==
    LET rows == get_rows(data, entity_name)
        pk == DictGet(schema.entities, entity_name).primary_key
    IN {DictGet(rows[i], <<pk>>) : i \in {j \in DOMAIN rows : DictHas(rows[j], <<pk>>)}}

ForeignKeys(entity) == {entity.foreign_keys[k].value : k \in DOMAIN entity.foreign_keys}

Dangling(row, fk) ==
    /\ DictHas(row, <<fk.name>>)
    /\ DictGet(row, <<fk.name>>) # Null
    /\ DictGet(row, <<fk.name>>) \notin PrimaryKeys(fk.target)

ValidRow(entity, row) ==
    /\ DictHas(row, <<entity.primary_key>>)
    /\ \A name \in RequiredFields(entity) : DictHas(row, <<name>>)
    /\ \A fk \in ForeignKeys(entity) : ~Dangling(row, fk)

(* C20: validate_data reports a missing required field for every row that  *)
(* lacks a declared field that is not nullable and has no default, and a   *)
(* foreign-key error for every row whose foreign-key value is not null and *)
(* is no primary key of the target table; it reports no foreign-key error  *)
(* for a null or absent foreign-key value, and nothing at all when every   *)
(* table is of a declared entity and every row has its primary key, its    *)
(* required fields and only foreign keys that resolve.                     *)
C20_ValidationReportsExactlyTheInvalidRows ==
    errors.status = "returned" =>
        /\ \A t \in KnownTables :
              \A i \in DOMAIN data[t].value :
                  LET row == data[t].value[i]
                      entity_name == data[t].key
                  IN /\ \A name \in RequiredFields(EntityOf(t)) :
                           ~DictHas(row, <<name>>)
                               => Reported("missing required field", entity_name, i - 1, name)
                     /\ \A fk \in ForeignKeys(EntityOf(t)) :
                           /\ Dangling(row, fk)
                                 => Reported("foreign key", entity_name, i - 1, fk.name)
                           /\ ~DictHas(row, <<fk.name>>) \/ DictGet(row, <<fk.name>>) = Null
                                 => ~Reported("foreign key", entity_name, i - 1, fk.name)
        /\ (/\ KnownTables = DOMAIN data
            /\ \A t \in DOMAIN data :
                  \A i \in DOMAIN data[t].value : ValidRow(EntityOf(t), data[t].value[i]))
              => errors.errors = <<>>

----------------------------------------------------------------------------
(* cosilico.brackets.cut(amount, schedule), called with its two positional *)
(* arguments: threshold_by and amount_by keep their default None, so the   *)
(* thresholds and the amounts are the schedule's own lists.  A scalar      *)
(* amount n is [scalar |-> n]; an array amount is [array |-> <<n1, ...>>].  *)
(* np.asarray makes a 0-dimensional array of a scalar, and indexing by a   *)
(* 0-dimensional index gives a 0-dimensional result, which float() turns   *)
(* into a Python float.                                                    *)

MaxThresholds == 3

MaxArray == 2

Float(x) == [kind |-> "float", value |-> x]

NdArray(xs) == [kind |-> "ndarray", values |-> xs]

Scalar(n) == [scalar |-> n]

IsArray(amount) == "array" \in DOMAIN amount

RECURSIVE SearchLeft(_, _, _, _)

SearchLeft(a, v, lo, hi) ==
    IF lo >= hi THEN lo
    ELSE LET mid == lo + ((hi - lo) \div 2)
         IN IF a[mid + 1] < v THEN SearchLeft(a, v, mid + 1, hi)
            ELSE SearchLeft(a, v, lo, mid)

(* np.searchsorted(a, v, side="left") *)
SearchSortedLeft(a, v) == SearchLeft(a, v, 0, Len(a))

RECURSIVE SearchRight(_, _, _, _)

(* numpy's binary search for side="right": the index, counted from 0, *)
(* before which v would be inserted to the right of its equals.       *)
SearchRight(a, v, lo, hi) ==
    IF lo >= hi THEN lo
    ELSE LET mid == lo + ((hi - lo) \div 2)
         IN IF a[mid + 1] <= v THEN SearchRight(a, v, mid + 1, hi)
            ELSE SearchRight(a, v, lo, mid)

searchsorted(a, v) == SearchRight(a, v, 0, Len(a))

clip(i, lo, hi) == IF i < lo THEN lo ELSE IF i > hi THEN hi ELSE i

(* amounts[indices] for one index. *)
BracketAmount(thresholds, amounts, v) ==
    amounts[clip(searchsorted(thresholds, v), 0, Len(amounts) - 1) + 1]

cut(amount, schedule) ==
    LET thresholds == schedule.thresholds
        amounts == schedule.amounts
    IN IF IsArray(amount)
       THEN NdArray([i \in DOMAIN amount.array |->
                        BracketAmount(thresholds, amounts, amount.array[i])])
       ELSE Float(BracketAmount(thresholds, amounts, amount.scalar))

(* The schedules: strictly increasing thresholds t_0 < ... < t_{k-1} and   *)
(* between one and k + 1 amounts.                                          *)
RECURSIVE Increasing(_)

Increasing(S) ==
    IF S = {} THEN <<>>
    ELSE LET m == MinOf(S) IN <<m>> \o Increasing(S \ {m})

CutThresholds == {Increasing(S) : S \in SUBSET (1..MaxThresholds)}

CutSchedules ==
    UNION {{[thresholds |-> t, amounts |-> a] :
               a \in UNION {[1..n -> 0..MaxThresholds] : n \in 1..(Len(t) + 1)}} :
           t \in CutThresholds}

CutScalars == 0..(MaxThresholds + 1)

CutAmounts ==
    {Scalar(n) : n \in CutScalars}
        \cup {[array |-> xs] : xs \in SeqUpTo(CutScalars, MaxArray)}

CutInit ==
    /\ modules = <<>>
    /\ set_order = <<>>
    /\ schema = Schema
    /\ var_decls = <<>>
    /\ amendments = <<>>
    /\ as_of = 1
    /\ outcome = NotCalled
    /\ compiles = 0
    /\ data = <<>>
    /\ exec_result = NotExecuted
    /\ NoModels
    /\ errors = NotValidated
    /\ \E amount \in CutAmounts, schedule \in CutSchedules :
          cut_call = [amount |-> amount, schedule |-> schedule]
    /\ cut_result = NotCut
    /\ source = NoSource
    /\ parsed = NotParsed
    /\ cache_dir = NoProjects
    /\ calls = NoCalls

Cut ==
    /\ cut_result = NotCut
    /\ cut_result' = cut(cut_call.amount, cut_call.schedule)
    /\ UNCHANGED <<modules, set_order, schema, var_decls, amendments, as_of, outcome,
                   compiles, data, exec_result, reform_modules, baseline, reform,
                   returned, errors, cut_call,
                   source, parsed,
                   cache_dir, calls>>

CutNext == Cut

CutSpec == CutInit /\ [][CutNext]_vars

(* The number of thresholds less than or equal to v, clipped to the last   *)
(* index of the amounts, counted from 0.                                   *)
BracketOf(schedule, v) ==
    LET j == Cardinality({i \in DOMAIN schedule.thresholds : schedule.thresholds[i] <= v})
        last == Len(schedule.amounts) - 1
    IN IF j > last THEN last ELSE j

(* C21: cut(amount, schedule) returns the amount a_j of the bracket j that *)
(* counts the thresholds less than or equal to the amount (an amount at a  *)
(* threshold is in the next bracket), j clipped to the last amount index;  *)
(* an array amount gives, element by element, the scalar results.          *)
C21_CutReturnsBracketAmount ==
    cut_result # NotCut =>
        LET amount == cut_call.amount
            schedule == cut_call.schedule
        IN IF IsArray(amount)
           THEN /\ cut_result.kind = "ndarray"
                /\ DOMAIN cut_result.values = DOMAIN amount.array
                /\ \A i \in DOMAIN amount.array :
                      /\ cut_result.values[i]
                            = schedule.amounts[BracketOf(schedule, amount.array[i]) + 1]
                      /\ cut_result.values[i] = cut(Scalar(amount.array[i]), schedule).value
           ELSE cut_result = Float(schedule.amounts[BracketOf(schedule, amount.scalar) + 1])

C21_Witness ==
    /\ cut_call.amount = Scalar(2)
    /\ cut_call.schedule = [thresholds |-> <<1, 2>>, amounts |-> <<2, 1, 0>>]
    /\ cut_result = Float(0)

----------------------------------------------------------------------------
(* Dependency sets: gov/a is declared with an expression of every node     *)
(* type over the leaves gov/b, gov/c, k and a literal, gov/b and gov/c are  *)
(* literals, and an amendment may replace the expression of gov/a.         *)
DepLeaves == {Var(PB), Var(PC), Var(PK), Literal(1)}

DepExprs ==
    {UnaryOp("-", x) : x \in DepLeaves}
    \cup {FieldAccess(x, "f") : x \in DepLeaves}
    \cup {BinOp("+", x, y) : x \in DepLeaves, y \in DepLeaves}
    \cup {Call(<<"max">>, <<x, y>>) : x \in DepLeaves, y \in DepLeaves}
    \cup {Cond(c, x, y) : c \in DepLeaves, x \in DepLeaves, y \in DepLeaves}
    \cup {Match(s, <<<<p, r>>>>, d) :
             s \in DepLeaves, p \in DepLeaves, r \in DepLeaves,
             d \in {None} \cup {Some(x) : x \in DepLeaves}}
    \cup {BinOp("*", Match(Var(PK), <<<<Literal(1), Var(PB)>>, <<p, Literal(2)>>>>, None),
                UnaryOp("-", x)) : p \in DepLeaves, x \in DepLeaves}

DepAmendments ==
    {<<>>, <<AmendDecl(PA, Always(Var(PC)))>>,
     <<AmendDecl(PA, Always(Match(Var(PK), <<<<Var(PB), Literal(1)>>>>, None)))>>}

DepModules ==
    {<<Module(<<>>,
              <<VariableDecl(PA, None, Always(x)),
                VariableDecl(PB, None, Always(Literal(1))),
                VariableDecl(PC, None, Always(Literal(2)))>>,
              am)>> :
        x \in DepExprs, am \in DepAmendments}

DepsInit ==
    /\ modules \in DepModules
    /\ set_order = DefaultOrder
    /\ as_of = 1
    /\ schema = Schema
    /\ var_decls = <<>>
    /\ amendments = <<>>
    /\ outcome = NotCalled
    /\ compiles = 0
    /\ data = <<>>
    /\ exec_result = NotExecuted
    /\ NoModels
    /\ errors = NotValidated
    /\ cut_call = NoCall
    /\ cut_result = NotCut
    /\ source = NoSource
    /\ parsed = NotParsed
    /\ cache_dir = NoProjects
    /\ calls = NoCalls

DepsSpec == DepsInit /\ [][Next]_vars

(* The '/'-paths of the Var nodes anywhere in an expression tree. *)
RECURSIVE SlashVars(_)

SlashVars(expr) ==
    CASE expr.type = "literal" -> {}
      [] expr.type = "var" -> IF Len(expr.path) > 1 THEN {expr.path} ELSE {}
      [] expr.type = "binop" -> SlashVars(expr.left) \cup SlashVars(expr.right)
      [] expr.type = "unaryop" -> SlashVars(expr.operand)
      [] expr.type = "call" -> UNION {SlashVars(expr.args[i]) : i \in DOMAIN expr.args}
      [] expr.type = "field_access" -> SlashVars(expr.obj)
      [] expr.type = "match" ->
            SlashVars(expr.subject)
            \cup UNION {SlashVars(expr.cases[i][1]) \cup SlashVars(expr.cases[i][2]) :
                           i \in DOMAIN expr.cases}
            \cup (IF expr.default # None THEN SlashVars(expr.default[1]) ELSE {})
      [] expr.type = "cond" ->
            SlashVars(expr.condition) \cup SlashVars(expr.then_expr)
            \cup SlashVars(expr.else_expr)

(* C22: the dependency set of every resolved variable is exactly the set   *)
(* of the '/'-paths of the Var nodes anywhere in its expression after the  *)
(* amendments: operands, arguments, field-access objects, match subject,   *)
(* patterns, results and default, and the three parts of a conditional.    *)
C22_DepsAreAllSlashVars ==
    IRReturned =>
        \A i \in DOMAIN outcome.ir.variables :
            LET u == outcome.ir.variables[i].value
            IN u.deps = SlashVars(u.expr)

----------------------------------------------------------------------------
(* 'and' and 'or': the scalar gov/a is an 'and' or an 'or' whose operands  *)
(* are atoms or themselves an 'and' or an 'or' of atoms.  The atoms are    *)
(* the booleans, 0, 5, a name that nothing defines and a call of a         *)
(* function that is no builtin.                                            *)
Unbound == <<"unbound">>

Nope == <<"nope">>

LogicAtoms ==
    {Literal(Bool(TRUE)), Literal(Bool(FALSE)), Literal(Whole(0)), Literal(Whole(5)),
     Var(Unbound), Call(Nope, <<>>)}

LogicOperands ==
    LogicAtoms \cup {BinOp(op, x, y) : op \in {"and", "or"}, x \in LogicAtoms, y \in LogicAtoms}

LogicExprs == {BinOp(op, x, y) : op \in {"and", "or"}, x \in LogicOperands, y \in LogicOperands}

LogicPrograms == {Program(<<VariableDecl(PA, None, Always(x))>>) : x \in LogicExprs}

LogicInit ==
    /\ modules \in LogicPrograms
    /\ data = Tables(None, FALSE)
    /\ set_order = ExecOrder
    /\ as_of = 1
    /\ schema = Schema
    /\ var_decls = <<>>
    /\ amendments = <<>>
    /\ outcome = NotCalled
    /\ compiles = 0
    /\ exec_result = NotExecuted
    /\ NoModels
    /\ errors = NotValidated
    /\ cut_call = NoCall
    /\ cut_result = NotCut
    /\ source = NoSource
    /\ parsed = NotParsed
    /\ cache_dir = NoProjects
    /\ calls = NoCalls

LogicSpec == LogicInit /\ [][ExecNext]_vars

LogicExpr == modules[1].variables[1].values[1].expr

(* The outcome of execute as an outcome of the evaluation of gov/a. *)
LogicOutcome ==
    IF exec_result.status = "raised" THEN exec_result.error
    ELSE Ok(DictGet(exec_result.scalars, PA))

(* The atoms of an expression of 'and' and 'or', from left to right. *)
RECURSIVE AtomsOf(_)

AtomsOf(expr) ==
    IF expr.type = "binop" THEN AtomsOf(expr.left) \o AtomsOf(expr.right) ELSE <<expr>>

AtomOutcomes(expr) ==
    LET atoms == AtomsOf(expr)
    IN [i \in DOMAIN atoms |-> evaluate(atoms[i], Context(data, <<>>, None, None))]

(* C23 as stated: the outcome of every 'and' and 'or', a value or a        *)
(* runtime error, is the outcome of its short-circuit evaluation.          *)
C23_SameAsShortCircuit ==
    Executed => LogicOutcome = ShortCircuit(LogicExpr, Context(data, <<>>, None, None))

(* C23: both operands of 'and' and 'or' are evaluated, left then right,    *)
(* before they are combined: the expression fails when any operand fails,  *)
(* with the error of the leftmost operand that fails, also where the left  *)
(* operand alone decides the result; when no operand fails, the value is   *)
(* the value of the short-circuit evaluation.                              *)
C23_BothOperandsEvaluated ==
    Executed =>
        LET outs == AtomOutcomes(LogicExpr)
            failing == {i \in DOMAIN outs : ~outs[i].ok}
        IN IF failing = {}
           THEN LogicOutcome = ShortCircuit(LogicExpr, Context(data, <<>>, None, None))
           ELSE LogicOutcome = outs[MinOf(failing)]

(* The case of C23: the left operand decides the result, the right one     *)
(* fails, and the execution fails with the right operand's error.          *)
C23_Witness ==
    /\ Executed
    /\ LogicExpr = BinOp("and", Literal(Bool(FALSE)), Var(Unbound))
    /\ exec_result.status = "raised"
    /\ exec_result.error = ExecutionError("undefined", Unbound)

----------------------------------------------------------------------------
(* rac.parser.  A source text is the sequence of its lexemes, one space    *)
(* between two of them, on one line: a lexeme is [type, value, len], type  *)
(* the token pattern that matches it, len its number of characters.  The   *)
(* text of a lexeme is a tuple of strings: the segments of a PATH, the one *)
(* segment of a name, the characters of a number or of a STRING (quotes    *)
(* included), the day of a DATE in January of the year 1, nothing for a    *)
(* sign.                                                                   *)

Token(type, value, line, col) == [type |-> type, value |-> value, line |-> line, col |-> col]

KEYWORDS ==
    [entity |-> "ENTITY", variable |-> "VARIABLE", amend |-> "AMEND", from |-> "FROM",
     to |-> "TO", match |-> "MATCH", if |-> "IF", else |-> "ELSE", and |-> "AND",
     or |-> "OR", not |-> "NOT", true |-> "TRUE", false |-> "FALSE"]

RECURSIVE TokeniseFrom(_, _, _, _)

(* Lexer._tokenise: a token starts at the column the lexer has reached; a  *)
(* name that is a keyword gets the keyword's type; EOF ends the list.      *)
TokeniseFrom(lexemes, i, col, acc) ==
    IF i > Len(lexemes) THEN Append(acc, Token("EOF", <<>>, 1, col))
    ELSE LET lx == lexemes[i]
             ttype == IF lx.type = "IDENT" /\ lx.value[1] \in DOMAIN KEYWORDS
                      THEN KEYWORDS[lx.value[1]] ELSE lx.type
             blank == IF i < Len(lexemes) THEN 1 ELSE 0
         IN TokeniseFrom(lexemes, i + 1, col + lx.len + blank,
                         Append(acc, Token(ttype, lx.value, 1, col)))

Lexer(lexemes) == TokeniseFrom(lexemes, 1, 1, <<>>)

ParseError(msg, line, col) == [ok |-> FALSE, msg |-> msg, line |-> line, col |-> col]

(* A parsing method returned expr and left the parser at position pos,     *)
(* counted from 1.                                                         *)
Parsed(expr, pos) == [ok |-> TRUE, expr |-> expr, pos |-> pos]

peek(toks, pos) == IF pos > Len(toks) THEN toks[Len(toks)] ELSE toks[pos]

at(toks, pos, types) == peek(toks, pos).type \in types

(* Parser.consume after a method that returned r: r, one token further. *)
consume(toks, r, ttype) ==
    IF ~r.ok THEN r
    ELSE IF peek(toks, r.pos).type # ttype
         THEN ParseError(<<"expected", ttype, "got", peek(toks, r.pos).type>>,
                         peek(toks, r.pos).line, peek(toks, r.pos).col)
         ELSE Parsed(r.expr, r.pos + 1)

(* The token that consume returns. *)
Consumed(toks, r) == peek(toks, r.pos - 1)

RECURSIVE parse_expr(_, _)
RECURSIVE parse_match(_, _)
RECURSIVE MatchCases(_, _, _, _)
RECURSIVE parse_cond(_, _)
RECURSIVE parse_or(_, _)
RECURSIVE OrLoop(_, _)
RECURSIVE parse_and(_, _)
RECURSIVE AndLoop(_, _)
RECURSIVE parse_cmp(_, _)
RECURSIVE parse_add(_, _)
RECURSIVE AddLoop(_, _)
RECURSIVE parse_mul(_, _)
RECURSIVE MulLoop(_, _)
RECURSIVE parse_unary(_, _)
RECURSIVE parse_postfix(_, _)
RECURSIVE PostfixLoop(_, _)
RECURSIVE CallArgs(_, _)
RECURSIVE ArgsLoop(_, _, _)
RECURSIVE parse_primary(_, _)

parse_expr(toks, pos) ==
    IF at(toks, pos, {"MATCH"}) THEN parse_match(toks, pos)
    ELSE IF at(toks, pos, {"IF"}) THEN parse_cond(toks, pos)
    ELSE parse_or(toks, pos)

(* One more case: its result r after its pattern. *)
CaseResult(pattern, r) == IF ~r.ok THEN r ELSE Parsed(<<pattern, r.expr>>, r.pos)

CaseAfterArrow(toks, arrow) ==
    IF ~arrow.ok THEN arrow ELSE CaseResult(arrow.expr, parse_expr(toks, arrow.pos))

(* The while loop of parse_match; default stays None. *)
MatchLoop(toks, subject, cases, case) ==
    IF ~case.ok THEN case
    ELSE MatchCases(toks, subject, Append(cases, case.expr), case.pos)

MatchCases(toks, subject, cases, pos) ==
    IF at(toks, pos, {"STRING", "INT", "FLOAT", "TRUE", "FALSE", "IDENT"})
    THEN MatchLoop(toks, subject, cases,
                   CaseAfterArrow(toks, consume(toks, parse_primary(toks, pos), "ARROW")))
    ELSE Parsed(Match(subject, cases, None), pos)

MatchAfterSubject(toks, colon) ==
    IF ~colon.ok THEN colon ELSE MatchCases(toks, colon.expr, <<>>, colon.pos)

parse_match(toks, pos) ==
    MatchAfterSubject(toks, consume(toks, parse_or(toks, pos + 1), "COLON"))

CondEnd(condition, then_expr, r) ==
    IF ~r.ok THEN r ELSE Parsed(Cond(condition, then_expr, r.expr), r.pos)

CondElse(toks, condition, colon) ==
    IF ~colon.ok THEN colon
    ELSE CondEnd(condition, colon.expr, parse_expr(toks, colon.pos))

CondThen(toks, colon) ==
    IF ~colon.ok THEN colon
    ELSE CondElse(toks, colon.expr,
                  consume(toks, consume(toks, parse_expr(toks, colon.pos), "ELSE"), "COLON"))

parse_cond(toks, pos) == CondThen(toks, consume(toks, parse_or(toks, pos + 1), "COLON"))

(* left op right, when right was parsed. *)
Operation(op, left, r) == IF ~r.ok THEN r ELSE Parsed(BinOp(op, left.expr, r.expr), r.pos)

OrLoop(toks, left) ==
    IF ~left.ok THEN left
    ELSE IF at(toks, left.pos, {"OR"})
         THEN OrLoop(toks, Operation("or", left, parse_and(toks, left.pos + 1)))
         ELSE left

parse_or(toks, pos) == OrLoop(toks, parse_and(toks, pos))

AndLoop(toks, left) ==
    IF ~left.ok THEN left
    ELSE IF at(toks, left.pos, {"AND"})
         THEN AndLoop(toks, Operation("and", left, parse_cmp(toks, left.pos + 1)))
         ELSE left

parse_and(toks, pos) == AndLoop(toks, parse_cmp(toks, pos))

op_map == [LT |-> "<", GT |-> ">", LE |-> "<=", GE |-> ">=", EQ |-> "==", NE |-> "!="]

Comparison(toks, left) ==
    IF ~left.ok THEN left
    ELSE IF at(toks, left.pos, DOMAIN op_map)
         THEN Operation(op_map[peek(toks, left.pos).type], left,
                        parse_add(toks, left.pos + 1))
         ELSE left

parse_cmp(toks, pos) == Comparison(toks, parse_add(toks, pos))

AddLoop(toks, left) ==
    IF ~left.ok THEN left
    ELSE IF at(toks, left.pos, {"PLUS", "MINUS"})
         THEN AddLoop(toks, Operation(IF at(toks, left.pos, {"PLUS"}) THEN "+" ELSE "-",
                                      left, parse_mul(toks, left.pos + 1)))
         ELSE left

parse_add(toks, pos) == AddLoop(toks, parse_mul(toks, pos))

MulLoop(toks, left) ==
    IF ~left.ok THEN left
    ELSE IF at(toks, left.pos, {"STAR", "SLASH"})
         THEN MulLoop(toks, Operation(IF at(toks, left.pos, {"STAR"}) THEN "*" ELSE "/",
                                      left, parse_unary(toks, left.pos + 1)))
         ELSE left

parse_mul(toks, pos) == MulLoop(toks, parse_unary(toks, pos))

Negation(op, r) == IF ~r.ok THEN r ELSE Parsed(UnaryOp(op, r.expr), r.pos)

parse_unary(toks, pos) ==
    IF at(toks, pos, {"MINUS", "NOT"})
    THEN Negation(IF at(toks, pos, {"MINUS"}) THEN "-" ELSE "not", parse_unary(toks, pos + 1))
    ELSE parse_postfix(toks, pos)

(* isinstance(expr, ast.Var) *)
IsVar(expr) == expr.type = "var"

CallOf(callee, args) ==
    IF ~args.ok THEN args ELSE Parsed(Call(callee.path, args.expr), args.pos)

FieldOf(toks, obj, name) ==
    IF ~name.ok THEN name
    ELSE Parsed(FieldAccess(obj, Consumed(toks, name).value[1]), name.pos)

PostfixLoop(toks, r) ==
    IF ~r.ok THEN r
    ELSE IF at(toks, r.pos, {"LPAREN"})
         THEN IF ~IsVar(r.expr)
              THEN ParseError(<<"can only call named functions">>,
                              peek(toks, r.pos).line, peek(toks, r.pos).col)
              ELSE PostfixLoop(toks, CallOf(r.expr, CallArgs(toks, r.pos + 1)))
         ELSE IF at(toks, r.pos, {"DOT"})
              THEN PostfixLoop(toks, FieldOf(toks, r.expr,
                                             consume(toks, Parsed(<<>>, r.pos + 1), "IDENT")))
              ELSE r

parse_postfix(toks, pos) == PostfixLoop(toks, parse_primary(toks, pos))

(* The arguments of a call, from the token after LPAREN to RPAREN. *)
ArgsLoop(toks, args, r) ==
    IF ~r.ok THEN r
    ELSE IF at(toks, r.pos, {"COMMA"})
         THEN ArgsLoop(toks, Append(args, r.expr), parse_expr(toks, r.pos + 1))
         ELSE consume(toks, Parsed(Append(args, r.expr), r.pos), "RPAREN")

CallArgs(toks, pos) ==
    IF at(toks, pos, {"RPAREN"}) THEN Parsed(<<>>, pos + 1)
    ELSE ArgsLoop(toks, <<>>, parse_expr(toks, pos))

DigitValue(c) ==
    CASE c = "0" -> 0 [] c = "1" -> 1 [] c = "2" -> 2 [] c = "3" -> 3 [] c = "4" -> 4
      [] c = "5" -> 5 [] c = "6" -> 6 [] c = "7" -> 7 [] c = "8" -> 8 [] c = "9" -> 9

RECURSIVE IntOf(_)

(* int(text) *)
IntOf(digits) ==
    IF digits = <<>> THEN 0
    ELSE 10 * IntOf(SubSeq(digits, 1, Len(digits) - 1)) + DigitValue(digits[Len(digits)])

RECURSIVE TenTo(_)

TenTo(n) == IF n = 0 THEN 1 ELSE 10 * TenTo(n - 1)

(* float(text), the text being digits, a point and digits. *)
FloatOf(chars) ==
    LET point == CHOOSE i \in DOMAIN chars : chars[i] = "."
    IN Num(IntOf(SubSeq(chars, 1, point - 1) \o SubSeq(chars, point + 1, Len(chars))),
           TenTo(Len(chars) - point))

(* val[1:-1] *)
StripQuotes(val) == SubSeq(val, 2, Len(val) - 1)

parse_primary(toks, pos) ==
    LET tok == peek(toks, pos)
    IN CASE tok.type = "INT" -> Parsed(Literal(Whole(IntOf(tok.value))), pos + 1)
         [] tok.type = "FLOAT" -> Parsed(Literal(FloatOf(tok.value)), pos + 1)
         [] tok.type = "STRING" -> Parsed(Literal(StripQuotes(tok.value)), pos + 1)
         [] tok.type = "TRUE" -> Parsed(Literal(Bool(TRUE)), pos + 1)
         [] tok.type = "FALSE" -> Parsed(Literal(Bool(FALSE)), pos + 1)
         [] tok.type = "PATH" -> Parsed(Var(tok.value), pos + 1)
         [] tok.type = "IDENT" -> Parsed(Var(tok.value), pos + 1)
         [] tok.type = "LPAREN" -> consume(toks, parse_expr(toks, pos + 1), "RPAREN")
         [] OTHER -> ParseError(<<"unexpected token in expression", tok.type>>,
                                tok.line, tok.col)

(* Parser._parse_path: the text of a PATH is its path, the text of an      *)
(* IDENT a path of one segment.                                            *)
_parse_path(toks, pos) ==
    IF at(toks, pos, {"PATH"}) THEN Parsed(peek(toks, pos).value, pos + 1)
    ELSE IF at(toks, pos, {"IDENT"}) THEN Parsed(peek(toks, pos).value, pos + 1)
    ELSE consume(toks, Parsed(<<>>, pos), "IDENT")

(* Parser._parse_date: date.fromisoformat of the text. *)
_parse_date(toks, pos) ==
    IF at(toks, pos, {"DATE"}) THEN Parsed(IntOf(peek(toks, pos).value), pos + 1)
    ELSE consume(toks, Parsed(<<>>, pos), "DATE")

(* [to DATE]: the end of a temporal value after its start. *)
TemporalEnd(toks, start) ==
    IF ~start.ok THEN start
    ELSE IF at(toks, start.pos, {"TO"})
         THEN LET end == _parse_date(toks, start.pos + 1)
              IN IF ~end.ok THEN end
                 ELSE Parsed([start |-> start.expr, end |-> Some(end.expr)], end.pos)
         ELSE Parsed([start |-> start.expr, end |-> None], start.pos)

TemporalExpr(span, r) ==
    IF ~r.ok THEN r ELSE Parsed(TemporalValue(span.start, span.end, r.expr), r.pos)

TemporalAfterColon(toks, colon) ==
    IF ~colon.ok THEN colon ELSE TemporalExpr(colon.expr, parse_expr(toks, colon.pos))

RECURSIVE _parse_temporal_values(_, _, _)

TemporalLoop(toks, values, tv) ==
    IF ~tv.ok THEN tv ELSE _parse_temporal_values(toks, Append(values, tv.expr), tv.pos)

_parse_temporal_values(toks, values, pos) ==
    IF at(toks, pos, {"FROM"})
    THEN TemporalLoop(toks, values,
                      TemporalAfterColon(toks,
                          consume(toks, TemporalEnd(toks, _parse_date(toks, pos + 1)),
                                  "COLON")))
    ELSE Parsed(values, pos)

DeclValues(path, entity, values) ==
    IF ~values.ok THEN values
    ELSE Parsed(VariableDecl(path, entity, values.expr), values.pos)

(* ["entity" ":" NAME] and the temporal values of a variable. *)
VariableBody(toks, colon) ==
    IF ~colon.ok THEN colon
    ELSE IF at(toks, colon.pos, {"ENTITY"})
         THEN LET name == consume(toks, consume(toks, Parsed(<<>>, colon.pos + 1), "COLON"),
                                  "IDENT")
              IN IF ~name.ok THEN name
                 ELSE DeclValues(colon.expr, Some(Consumed(toks, name).value[1]),
                                 _parse_temporal_values(toks, <<>>, name.pos))
         ELSE DeclValues(colon.expr, None, _parse_temporal_values(toks, <<>>, colon.pos))

parse_variable(toks, pos) ==
    VariableBody(toks, consume(toks, _parse_path(toks, pos + 1), "COLON"))

AmendValues(target, values) ==
    IF ~values.ok THEN values ELSE Parsed(AmendDecl(target, values.expr), values.pos)

AmendBody(toks, colon) ==
    IF ~colon.ok THEN colon
    ELSE AmendValues(colon.expr, _parse_temporal_values(toks, <<>>, colon.pos))

parse_amend(toks, pos) == AmendBody(toks, consume(toks, _parse_path(toks, pos + 1), "COLON"))

RECURSIVE FieldsLoop(_, _, _, _, _)

(* One field of an entity, after its name and the colon: a foreign key, a  *)
(* reverse relation or a typed field.                                      *)
EntityField(toks, name, fields, relations, field_name, pos) ==
    IF at(toks, pos, {"FK"})
    THEN LET target == consume(toks, Parsed(<<>>, pos + 1), "IDENT")
         IN IF ~target.ok THEN target
            ELSE FieldsLoop(toks, name, fields,
                              Append(relations,
                                     <<field_name, Consumed(toks, target).value[1], FALSE>>),
                              target.pos)
    ELSE IF at(toks, pos, {"LBRACKET"})
    THEN LET target == consume(toks, Parsed(<<>>, pos + 1), "IDENT")
             closed == consume(toks, target, "RBRACKET")
         IN IF ~closed.ok THEN closed
            ELSE FieldsLoop(toks, name, fields,
                              Append(relations,
                                     <<field_name, Consumed(toks, target).value[1], TRUE>>),
                              closed.pos)
    ELSE LET dtype == consume(toks, Parsed(<<>>, pos), "IDENT")
         IN IF ~dtype.ok THEN dtype
            ELSE FieldsLoop(toks, name,
                              Append(fields, <<field_name, Consumed(toks, dtype).value[1]>>),
                              relations, dtype.pos)

FieldsLoop(toks, name, fields, relations, pos) ==
    IF at(toks, pos, {"IDENT"})
    THEN LET colon == consume(toks, Parsed(<<>>, pos + 1), "COLON")
         IN IF ~colon.ok THEN colon
            ELSE EntityField(toks, name, fields, relations, peek(toks, pos).value[1], colon.pos)
    ELSE Parsed(EntityDecl(name, fields, relations), pos)

parse_entity(toks, pos) ==
    LET name == consume(toks, Parsed(<<>>, pos + 1), "IDENT")
        colon == consume(toks, name, "COLON")
    IN IF ~colon.ok THEN colon
       ELSE FieldsLoop(toks, Consumed(toks, name).value[1], <<>>, <<>>, colon.pos)

RECURSIVE parse_module(_, _, _)

ModuleLoop(toks, kind, module, decl) ==
    IF ~decl.ok THEN decl
    ELSE parse_module(toks, [module EXCEPT ![kind] = Append(@, decl.expr)], decl.pos)

parse_module(toks, module, pos) ==
    IF at(toks, pos, {"EOF"}) THEN Parsed(module, pos)
    ELSE IF at(toks, pos, {"ENTITY"})
    THEN ModuleLoop(toks, "entities", module, parse_entity(toks, pos))
    ELSE IF at(toks, pos, {"VARIABLE"})
    THEN ModuleLoop(toks, "variables", module, parse_variable(toks, pos))
    ELSE IF at(toks, pos, {"AMEND"})
    THEN ModuleLoop(toks, "amendments", module, parse_amend(toks, pos))
    ELSE ParseError(<<"unexpected token", peek(toks, pos).type>>,
                    peek(toks, pos).line, peek(toks, pos).col)

ModuleParsed(module) == [status |-> "returned", module |-> module]

ParseRaised(err) == [status |-> "raised", msg |-> err.msg, line |-> err.line, col |-> err.col]

(* rac.parser.parse(source) *)
parse(lexemes) ==
    LET Returning(r) == IF r.ok THEN ModuleParsed(r.expr) ELSE ParseRaised(r)
    IN CHOOSE out \in {Returning(r) :
                          r \in {parse_module(Lexer(lexemes), Module(<<>>, <<>>, <<>>), 1)}} :
           TRUE

----------------------------------------------------------------------------
(* The parser's state machine: parse is called on a source text, and a     *)
(* Compiler is constructed over the module it returns.                     *)

Parse ==
    /\ source # NoSource
    /\ parsed = NotParsed
    /\ parsed' = parse(source)
    /\ modules' = IF parsed'.status = "returned" THEN <<parsed'.module>> ELSE modules
    /\ schema' = Schema
    /\ var_decls' = <<>>
    /\ amendments' = <<>>
    /\ outcome' = NotCalled
    /\ compiles' = 0
    /\ exec_result' = NotExecuted
    /\ UNCHANGED <<set_order, as_of, data, reform_modules, baseline, reform, returned,
                   errors, cut_call, cut_result, source,
                   cache_dir, calls>>

(* The lexemes. *)
Lx(type, value, len) == [type |-> type, value |-> value, len |-> len]

Name(text) == Lx("IDENT", <<text>>, 1)

Word(text, len) == Lx("IDENT", <<text>>, len)

Sign(type, len) == Lx(type, <<>>, len)

Digit(c) == Lx("INT", <<c>>, 1)

Day(c) == Lx("DATE", <<c>>, 10)

LParen == Sign("LPAREN", 1)

RParen == Sign("RPAREN", 1)

Colon == Sign("COLON", 1)

(* variable gov/a: from 0001-01-01: *)
VariableHead ==
    <<Word("variable", 8), Lx("PATH", PA, 5), Colon, Word("from", 4), Day("1"), Colon>>

(* The heads of a source text: nothing before the variable, an entity and  *)
(* an amendment before it, or a variable of an entity.                     *)
SourceHeads ==
    {VariableHead,
     <<Word("entity", 6), Word("person", 6), Colon, Word("income", 6), Colon,
       Word("float", 5), Word("home", 4), Colon, Sign("FK", 2), Word("household", 9),
       Word("members", 7), Colon, Sign("LBRACKET", 1), Word("person", 6),
       Sign("RBRACKET", 1),
       Word("amend", 5), Lx("PATH", PB, 5), Colon, Word("from", 4), Day("1"),
       Word("to", 2), Day("2"), Colon, Digit("1")>> \o VariableHead,
     <<Word("variable", 8), Name("t"), Colon, Word("entity", 6), Colon, Word("person", 6),
       Word("from", 4), Day("1"), Colon>>}

(* Calls: a callee, the arguments in parentheses, and what follows. *)
NameCallees == {<<Name("f")>>, <<Word("max", 3)>>}

OtherCallees ==
    {<<Name("f"), Sign("DOT", 1), Name("g")>>,
     <<Lx("PATH", <<"gov", "f">>, 5)>>,
     <<Name("f"), LParen, Name("x"), RParen>>,
     <<LParen, Name("f"), RParen>>,
     <<LParen, Name("f"), Sign("PLUS", 1), Digit("1"), RParen>>,
     <<Digit("1")>>,
     <<Lx("FLOAT", <<"1", ".", "5">>, 3)>>,
     <<Lx("STRING", <<"'", "s", "'">>, 3)>>,
     <<Word("true", 4)>>}

CallArguments ==
    {<<>>, <<Name("x")>>, <<Name("x"), Sign("COMMA", 1), Digit("2")>>,
     <<Name("x"), Sign("COMMA", 1)>>}

CallTails ==
    {<<>>, <<Sign("DOT", 1), Name("h")>>, <<Sign("STAR", 1), Digit("2")>>,
     <<Word("and", 3), Word("not", 3), Name("y")>>, <<Sign("LT", 1), Name("y")>>,
     <<Sign("MINUS", 1)>>, <<RParen>>}

CallSource(head, callee, args, tail) == head \o callee \o <<LParen>> \o args \o <<RParen>> \o tail

CallSources ==
    {CallSource(head, callee, args, tail) :
        head \in SourceHeads, callee \in NameCallees \cup OtherCallees,
        args \in CallArguments, tail \in CallTails}

ParseInit ==
    /\ source \in CallSources
    /\ parsed = NotParsed
    /\ modules = <<>>
    /\ set_order = ExecOrder
    /\ as_of = 1
    /\ schema = Schema
    /\ var_decls = <<>>
    /\ amendments = <<>>
    /\ outcome = NotCalled
    /\ compiles = 0
    /\ data = <<>>
    /\ exec_result = NotExecuted
    /\ NoModels
    /\ errors = NotValidated
    /\ cut_call = NoCall
    /\ cut_result = NotCut
    /\ cache_dir = NoProjects
    /\ calls = NoCalls

ParseNext == Parse

ParseSpec == ParseInit /\ [][ParseNext]_vars

(* The column of the lexeme after the given ones. *)
RECURSIVE ColumnAfter(_)

ColumnAfter(lexemes) ==
    IF lexemes = <<>> THEN 1
    ELSE ColumnAfter(SubSeq(lexemes, 1, Len(lexemes) - 1)) + lexemes[Len(lexemes)].len + 1

ParseCalled == parsed.status # "none"

(* C27: a call whose callee is not a bare name (a field access, a path,    *)
(* a call result, a parenthesised expression or a literal) is rejected     *)
(* with a ParseError that carries the position of the call.                *)
C27_OnlyBareNamesAreCalled ==
    ParseCalled =>
        \A head \in SourceHeads, callee \in OtherCallees,
           args \in CallArguments, tail \in CallTails :
            source = CallSource(head, callee, args, tail)
                => /\ parsed.status = "raised"
                   /\ parsed.msg = <<"can only call named functions">>
                   /\ parsed.line = 1
                   /\ parsed.col = ColumnAfter(head \o callee)

----------------------------------------------------------------------------
(* Match: the scalar gov/a is a match, built as an ast.Match, with or      *)
(* without a default, or parsed from a source text.  Subjects, patterns,   *)
(* results and defaults are numbers and names that nothing defines.        *)
MaxCases == 2

MatchSubjects == {Literal(Whole(1)), Literal(Whole(2)), Var(<<"x">>)}

MatchCaseMenu ==
    {<<p, r>> : p \in {Literal(Whole(1)), Literal(Whole(2)), Var(<<"y">>)},
                r \in {Literal(Whole(5)), Var(<<"z">>)}}

MatchDefaults == {None, Some(Literal(Whole(0))), Some(Var(<<"w">>))}

MatchPrograms ==
    {Program(<<VariableDecl(PA, None, Always(Match(s, cs, d)))>>) :
        s \in MatchSubjects, cs \in SeqUpTo(MatchCaseMenu, MaxCases), d \in MatchDefaults}

(* The source texts: match <subject> : (<pattern> => <result>)* *)
Arrow == Sign("ARROW", 2)

SourceSubjects == {<<Digit("1")>>, <<Digit("2")>>, <<Name("x")>>}

SourceCaseMenu ==
    {p \o <<Arrow>> \o r :
        p \in {<<Digit("1")>>, <<Digit("2")>>, <<Name("y")>>, <<Name("_")>>},
        r \in {<<Digit("5")>>, <<Name("z")>>,
               <<Word("match", 5), Digit("2"), Colon, Digit("2"), Arrow, Digit("6")>>}}

RECURSIVE Joined(_)

Joined(parts) == IF parts = <<>> THEN <<>> ELSE Head(parts) \o Joined(Tail(parts))

MatchSources ==
    {VariableHead \o <<Word("match", 5)>> \o s \o <<Colon>> \o Joined(cs) :
        s \in SourceSubjects, cs \in SeqUpTo(SourceCaseMenu, MaxCases)}

MatchInit ==
    /\ \/ /\ modules \in MatchPrograms
          /\ source = NoSource
       \/ /\ modules = <<>>
          /\ source \in MatchSources
    /\ parsed = NotParsed
    /\ data = Tables(None, FALSE)
    /\ set_order = ExecOrder
    /\ as_of = 1
    /\ schema = Schema
    /\ var_decls = <<>>
    /\ amendments = <<>>
    /\ outcome = NotCalled
    /\ compiles = 0
    /\ exec_result = NotExecuted
    /\ NoModels
    /\ errors = NotValidated
    /\ cut_call = NoCall
    /\ cut_result = NotCut
    /\ cache_dir = NoProjects
    /\ calls = NoCalls

MatchNext == Parse \/ Compile \/ Execute

MatchSpec == MatchInit /\ [][MatchNext]_vars

(* The match that was executed, and the outcome of execute as the outcome  *)
(* of its evaluation.                                                      *)
MatchExecuted == Executed /\ modules # <<>> /\ outcome.status = "returned"

MatchExpr == modules[1].variables[1].values[1].expr

MatchOutcome ==
    IF exec_result.status = "raised" THEN exec_result.error
    ELSE Ok(DictGet(exec_result.scalars, PA))

Alone(expr) == evaluate(expr, Context(data, <<>>, None, None))

(* The cases at which the evaluation of a match stops: the pattern raises  *)
(* or its value equals the subject's.                                      *)
Stops(expr) ==
    {i \in DOMAIN expr.cases :
        \/ ~Alone(expr.cases[i][1]).ok
        \/ PyEq(Alone(expr.subject).value, Alone(expr.cases[i][1]).value)}

(* The defaults of the Match nodes anywhere in an expression. *)
RECURSIVE DefaultsIn(_)

DefaultsIn(expr) ==
    CASE expr.type \in {"literal", "var"} -> {}
      [] expr.type = "binop" -> DefaultsIn(expr.left) \cup DefaultsIn(expr.right)
      [] expr.type = "unaryop" -> DefaultsIn(expr.operand)
      [] expr.type = "call" -> UNION {DefaultsIn(expr.args[i]) : i \in DOMAIN expr.args}
      [] expr.type = "field_access" -> DefaultsIn(expr.obj)
      [] expr.type = "match" ->
            {expr.default} \cup DefaultsIn(expr.subject)
            \cup UNION {DefaultsIn(expr.cases[i][1]) \cup DefaultsIn(expr.cases[i][2]) :
                           i \in DOMAIN expr.cases}
            \cup (IF expr.default # None THEN DefaultsIn(expr.default[1]) ELSE {})
      [] expr.type = "cond" ->
            DefaultsIn(expr.condition) \cup DefaultsIn(expr.then_expr)
            \cup DefaultsIn(expr.else_expr)

(* C24: a Match evaluates its subject, then the patterns in order, and     *)
(* returns the result of the first case whose pattern equals the subject,  *)
(* no later pattern and no other result being evaluated; when no case      *)
(* matches it returns the value of the default if there is one and fails   *)
(* with a runtime error if there is none.  A Match that the parser made    *)
(* has no default.                                                         *)
C24_FirstMatchingCaseWins ==
    /\ MatchExecuted =>
          LET subject == Alone(MatchExpr.subject)
              stops == Stops(MatchExpr)
          IN MatchOutcome =
                IF ~subject.ok THEN subject
                ELSE IF stops # {}
                     THEN IF ~Alone(MatchExpr.cases[MinOf(stops)][1]).ok
                          THEN Alone(MatchExpr.cases[MinOf(stops)][1])
                          ELSE Alone(MatchExpr.cases[MinOf(stops)][2])
                     ELSE IF MatchExpr.default # None THEN Alone(MatchExpr.default[1])
                     ELSE ExecutionError("no match", <<>>)
    /\ parsed.status = "returned" =>
          \A i \in DOMAIN parsed.module.variables :
              \A k \in DOMAIN parsed.module.variables[i].values :
                  DefaultsIn(parsed.module.variables[i].values[k].expr) \subseteq {None}

(* The case of C24: the parser made a match of two cases, the last one     *)
(* shaped as a default, and no default; the first case matches, and the    *)
(* second pattern, an undefined name, is not evaluated.                    *)
C24_Witness ==
    /\ parsed.status = "returned"
    /\ MatchExecuted
    /\ MatchExpr = Match(Literal(Whole(1)),
                         <<<<Literal(Whole(1)), Literal(Whole(5))>>,
                           <<Var(<<"_">>), Literal(Whole(5))>>>>, None)
    /\ MatchOutcome = Ok(Whole(5))

----------------------------------------------------------------------------
(* C25: executing an IR leaves the Data as it was, whether execute returns *)
(* or raises: every table and every row mapping, and with them the index   *)
(* over the rows, are equal before and after; the values computed for a    *)
(* row are set in a copy of the row.                                       *)
C25_ExecuteLeavesDataUnchanged ==
    [][exec_result' # exec_result => /\ data' = data
                                     /\ build_index(data') = build_index(data)]_vars

(* The case of C25: two variables of person were computed for three rows,  *)
(* the value of the first having been set in the augmented row of the      *)
(* second, and the rows have the items they had.                           *)
C25_Witness ==
    /\ exec_result.status = "returned"
    /\ \E e \in DOMAIN exec_result.entities :
          /\ Len(exec_result.entities[e].value) >= 2
          /\ \A k \in DOMAIN exec_result.entities[e].value :
                Len(exec_result.entities[e].value[k].value) = MaxRows
    /\ \E t \in DOMAIN data :
          /\ Len(data[t].value) = MaxRows
          /\ \A i \in DOMAIN data[t].value : KeySet(data[t].value[i]) = {Income}

----------------------------------------------------------------------------
(* The build cache of rac.native: compile_to_binary keeps one cargo       *)
(* project per IR hash under CACHE_DIR/projects.                           *)

MaxBuilds == 3

(* str() of an expression, as pydantic renders a model: the fields in     *)
(* declaration order as name=repr(value), separated by spaces; a nested   *)
(* model is rendered as ClassName(...), a list as [.., ..], a tuple as    *)
(* (.., ..). The text is kept as the sequence of its pieces.              *)
ClassName(expr) ==
    CASE expr.type = "literal" -> "Literal"
      [] expr.type = "var" -> "Var"
      [] expr.type = "binop" -> "BinOp"
      [] expr.type = "unaryop" -> "UnaryOp"
      [] expr.type = "call" -> "Call"
      [] expr.type = "field_access" -> "FieldAccess"
      [] expr.type = "match" -> "Match"
      [] expr.type = "cond" -> "Cond"

RECURSIVE Slashed(_, _)
Slashed(p, k) ==
    IF k > Len(p) THEN <<>>
    ELSE (IF k = 1 THEN <<>> ELSE <<"/">>) \o <<p[k]>> \o Slashed(p, k + 1)

ReprStr(p) == <<"'">> \o Slashed(p, 1) \o <<"'">>

(* repr of a literal's value: True/False, an integer's digits, a float's  *)
(* digits (here numerator and denominator of the number in lowest terms). *)
ReprValue(v) ==
    IF IsBool(v) THEN <<IF v.bool THEN "True" ELSE "False">>
    ELSE IF v.den = 1 THEN <<ToString(v.num)>>
    ELSE <<ToString(v.num), "/", ToString(v.den)>>

RECURSIVE Str(_)
RECURSIVE ReprArgs(_, _)
RECURSIVE ReprCases(_, _)
Repr(expr) == <<ClassName(expr), "(">> \o Str(expr) \o <<")">>

ReprArgs(args, k) ==
    IF k > Len(args) THEN <<>>
    ELSE (IF k = 1 THEN <<>> ELSE <<", ">>) \o Repr(args[k]) \o ReprArgs(args, k + 1)

ReprCases(cases, k) ==
    IF k > Len(cases) THEN <<>>
    ELSE (IF k = 1 THEN <<>> ELSE <<", ">>)
         \o <<"(">> \o Repr(cases[k][1]) \o <<", ">> \o Repr(cases[k][2]) \o <<")">>
         \o ReprCases(cases, k + 1)

Str(expr) ==
    <<"type=">> \o <<"'", expr.type, "'">> \o
    CASE expr.type = "literal" -> <<" value=">> \o ReprValue(expr.value)
      [] expr.type = "var" -> <<" path=">> \o ReprStr(expr.path)
      [] expr.type = "binop" ->
            <<" op=", "'", expr.op, "'", " left=">> \o Repr(expr.left)
            \o <<" right=">> \o Repr(expr.right)
      [] expr.type = "unaryop" ->
            <<" op=", "'", expr.op, "'", " operand=">> \o Repr(expr.operand)
      [] expr.type = "call" ->
            <<" func=">> \o ReprStr(expr.func)
            \o <<" args=", "[">> \o ReprArgs(expr.args, 1) \o <<"]">>
      [] expr.type = "field_access" ->
            <<" obj=">> \o Repr(expr.obj) \o <<" field=">> \o ReprStr(<<expr.field>>)
      [] expr.type = "match" ->
            <<" subject=">> \o Repr(expr.subject)
            \o <<" cases=", "[">> \o ReprCases(expr.cases, 1) \o <<"]">>
            \o <<" default=">>
            \o (IF expr.default = None THEN <<"None">> ELSE Repr(expr.default[1]))
      [] expr.type = "cond" ->
            <<" condition=">> \o Repr(expr.condition)
            \o <<" then_expr=">> \o Repr(expr.then_expr)
            \o <<" else_expr=">> \o Repr(expr.else_expr)

(* A key that also covers what the generated program depends on.          *)
HashWithSchema(ir) ==
    [order |-> ir.order,
     vars |-> {<<ir.variables[k].key, Str(ir.variables[k].value.expr)>> :
                  k \in DOMAIN ir.variables},
     schema_ |-> ir.schema_,
     entities |-> {<<ir.variables[k].key, ir.variables[k].value.entity>> :
                      k \in DOMAIN ir.variables}]

(* _ir_hash: the digest of the JSON document {"order": .., "vars": ..}    *)
(* written with sorted keys, so the order of ir.variables does not count. *)
(* The digest stands for the document: two documents get one key exactly  *)
(* when they are equal.                                                   *)
_ir_hash(ir) ==
    [order |-> ir.order,
     vars |-> {<<ir.variables[k].key, Str(ir.variables[k].value.expr)>> :
                  k \in DOMAIN ir.variables}]

(* The files of one project directory: Cargo.toml, src/main.rs (what it   *)
(* was generated from) and target/release/rac_native (what it was built   *)
(* from).                                                                 *)
NoProject == [cargo_toml |-> FALSE, main_rs |-> None, binary |-> None]

ProjectOf(projects, ir_hash) ==
    IF DictHas(projects, ir_hash) THEN DictGet(projects, ir_hash) ELSE NoProject

project_dir_exists(projects, ir_hash) == DictHas(projects, ir_hash)

(* binary_path.exists() *)
binary_path_exists(projects, ir_hash) == ProjectOf(projects, ir_hash).binary # None

(* The CompiledBinary a call returns: the path of the executable, the IR  *)
(* of this call and its entity schemas.                                   *)
BinaryAt(ir_hash, ir, entity_schemas) ==
    [binary_path |-> ir_hash, ir |-> ir, entity_schemas |-> entity_schemas]

(* cargo build --release --quiet in the project directory: exit status 0  *)
(* leaves the executable of the main.rs it compiled at binary_path.       *)
CargoBuild(project, result) ==
    IF result.returncode = 0 THEN [project EXCEPT !.binary = project.main_rs]
    ELSE project

FileOp(op, arg) == [op |-> op, arg |-> arg]

Scaffold ==
    <<FileOp("mkdir", "project_dir"), FileOp("write_text", "Cargo.toml"),
      FileOp("mkdir", "src"), FileOp("write_text", "src/main.rs")>>

RunCargo == FileOp("subprocess.run", "cargo build --release --quiet")

RuntimeError(stderr) == [kind |-> "RuntimeError", message |-> <<"Compilation failed:", stderr>>]

BuildReturned(binary) == [status |-> "returned", binary |-> binary]

BuildRaised(err) == [status |-> "raised", error |-> err]

(* compile_to_binary(ir, cache=True) on a machine with cargo installed:   *)
(* the files afterwards, what was written and run, and the outcome.       *)
CompileToBinary(ir, projects, result) ==
    LET listed == EntityOutputs(ir)
        ir_hash == _ir_hash(ir)
    IN IF listed.raised # None
       THEN [projects |-> projects, events |-> <<>>,
             outcome |-> BuildRaised(listed.raised[1])]
       ELSE IF binary_path_exists(projects, ir_hash)
       THEN [projects |-> projects, events |-> <<>>,
             outcome |-> BuildReturned(BinaryAt(ir_hash, ir,
                                                EntitySchemas(ir, listed.outputs)))]
       ELSE LET entity_schemas == EntitySchemas(ir, listed.outputs)
                written == [ProjectOf(projects, ir_hash) EXCEPT
                               !.cargo_toml = TRUE,
                               !.main_rs = Some(CompiledBinary(ir, entity_schemas))]
            IN [projects |-> DictSet(projects, ir_hash, CargoBuild(written, result)),
                events |-> Append(Scaffold, RunCargo),
                outcome |-> IF result.returncode # 0
                            THEN BuildRaised(RuntimeError(result.stderr))
                            ELSE BuildReturned(BinaryAt(ir_hash, ir, entity_schemas))]

(* What cargo may answer. *)
CargoResults ==
    {[returncode |-> 0, stderr |-> ""],
     [returncode |-> 101, stderr |-> "error: could not compile rac_native"]}

(* The IRs: one person variable declared over schemas that differ in the  *)
(* field list or field types of person, bound to either entity, with one *)
(* of two thresholds.                                                     *)
CacheFields ==
    {<<<<"income", "float">>>>, <<<<"income", "int">>>>,
     <<<<"income", "float">>, <<"age", "int">>>>}

CacheModules ==
    {<<Module(<<EntityDecl("person", fs, <<>>),
                EntityDecl("household", <<<<"size", "int">>>>, <<>>)>>,
              <<VariableDecl(Tax, Some(e), Always(TaxExpr(Literal(Whole(t)))))>>,
              <<>>)>> :
        fs \in CacheFields, e \in {"person", "household"}, t \in {12500, 10000}}

CacheIRs ==
    {compile([schema |-> Schema, var_decls |-> <<>>, amendments |-> <<>>,
              error |-> NoError], mods, 1, <<Tax>>).result.ir : mods \in CacheModules}

CacheInit ==
    /\ modules = <<>>
    /\ set_order = <<>>
    /\ data = <<>>
    /\ as_of = 1
    /\ schema = Schema
    /\ var_decls = <<>>
    /\ amendments = <<>>
    /\ outcome = NotCalled
    /\ compiles = 0
    /\ exec_result = NotExecuted
    /\ NoModels
    /\ errors = NotValidated
    /\ cut_call = NoCall
    /\ cut_result = NotCut
    /\ source = NoSource
    /\ parsed = NotParsed
    /\ cache_dir = NoProjects
    /\ calls = NoCalls

(* One call of compile_to_binary. *)
Build ==
    /\ Len(calls) < MaxBuilds
    /\ \E ir \in CacheIRs, result \in CargoResults :
          \E done \in {CompileToBinary(ir, cache_dir, result)} :
             /\ cache_dir' = done.projects
             /\ calls' = Append(calls, [ir |-> ir, ir_hash |-> _ir_hash(ir),
                                        events |-> done.events,
                                        outcome |-> done.outcome])
    /\ UNCHANGED <<modules, set_order, schema, var_decls, amendments, as_of, outcome,
                   compiles, data, exec_result, reform_modules, baseline, reform,
                   returned, errors, cut_call, cut_result, source, parsed>>

CacheNext == Build

CacheSpec == CacheInit /\ [][CacheNext]_vars

(* The cache starts empty, so the executable of a key exists exactly when *)
(* an earlier call for that key ran the build tool and it exited with 0.  *)
BuiltBy(i) ==
    /\ calls[i].events # <<>>
    /\ calls[i].outcome.status = "returned"

ExecutableExistsBefore(i) ==
    \E h \in 1..(i - 1) : calls[h].ir_hash = calls[i].ir_hash /\ BuiltBy(h)

Runs(events) == {k \in DOMAIN events : events[k].op = "subprocess.run"}

Writes(events) == {events[k].arg : k \in {n \in DOMAIN events : events[n].op = "write_text"}}

Agree(ir1, ir2) ==
    /\ ir1.order = ir2.order
    /\ KeySet(ir1.variables) = KeySet(ir2.variables)
    /\ \A p \in KeySet(ir1.variables) :
          Str(DictGet(ir1.variables, p).expr) = Str(DictGet(ir2.variables, p).expr)

Bindings(ir) == {<<ir.variables[k].key, ir.variables[k].value.entity>> : k \in DOMAIN ir.variables}

ExecutableAt(binary_path) == ProjectOf(cache_dir, binary_path).binary

(* C29: IRs that agree on the order and on the string form of every       *)
(* expression get one key whatever their schemas and entity bindings, and *)
(* once one of them is built compile_to_binary for another returns,       *)
(* without building, the path of the executable built from the first.     *)
C29_KeyIgnoresSchemaAndEntity ==
    \A i, n \in DOMAIN calls :
        (i < n /\ Agree(calls[i].ir, calls[n].ir)) =>
            /\ calls[i].ir_hash = calls[n].ir_hash
            /\ (BuiltBy(i) /\ ~ExecutableExistsBefore(i)) =>
                  /\ calls[n].events = <<>>
                  /\ calls[n].outcome.status = "returned"
                  /\ calls[n].outcome.binary.binary_path = calls[i].outcome.binary.binary_path
                  /\ ExecutableAt(calls[n].outcome.binary.binary_path)
                        = Some(CompiledBinary(calls[i].ir, calls[i].outcome.binary.entity_schemas))

(* After a build, a call with another field list and a call with another  *)
(* entity binding both get the executable of the first, which reads other *)
(* input columns than their own IRs name.                                 *)
C29_Witness ==
    /\ Len(calls) = 3
    /\ BuiltBy(1)
    /\ Agree(calls[1].ir, calls[2].ir) /\ Agree(calls[1].ir, calls[3].ir)
    /\ calls[2].ir.schema_ # calls[1].ir.schema_
    /\ Bindings(calls[2].ir) = Bindings(calls[1].ir)
    /\ Bindings(calls[3].ir) # Bindings(calls[1].ir)
    /\ calls[3].events = <<>>
    /\ calls[3].outcome.status = "returned"
    /\ calls[3].outcome.binary.entity_schemas # calls[1].outcome.binary.entity_schemas
    /\ ExecutableAt(calls[3].outcome.binary.binary_path)
          = Some(CompiledBinary(calls[1].ir, calls[1].outcome.binary.entity_schemas))

----------------------------------------------------------------------------
(* A new Compiler over the modules and the date of the instance.          *)
FreshCompile ==
    compile([schema |-> Schema, var_decls |-> <<>>, amendments |-> <<>>,
             error |-> NoError], modules, as_of, set_order).result

(* C28: after a compile call that returned, a second call on the same     *)
(* instance raises the duplicate-variable CompileError (for the first     *)
(* variable the modules declare) whenever the modules declare a variable, *)
(* while a new Compiler over the same modules and date returns an IR      *)
(* equal to the one the first call returned.                              *)
C28_SecondCompileRaisesDuplicate ==
    [][(compiles = 1 /\ outcome.status = "returned" /\ compiles' = 2) =>
          /\ SourceVariables # <<>> =>
                /\ outcome'.status = "raised"
                /\ outcome'.error = CompileError("duplicate variable",
                                                 SourceVariables[1].path, None)
          /\ FreshCompile.status = "returned"
          /\ FreshCompile.ir = outcome.ir]_vars

(* The second call has raised the duplicate-variable error over modules   *)
(* that declare no path twice and that a new Compiler compiles.           *)
C28_Witness ==
    /\ compiles = 2
    /\ SourceVariables # <<>>
    /\ ~HasDuplicate
    /\ outcome.status = "raised"
    /\ outcome.error.kind = "duplicate variable"
    /\ FreshCompile.status = "returned"
    /\ FreshCompile.ir.variables # <<>>

----------------------------------------------------------------------------
(* The declarations, in source order, none of whose own temporal values   *)
(* contains the date.                                                     *)
Lacking == {i \in DOMAIN SourceVariables : InForceAt(SourceVariables[i].values, as_of) = {}}

(* The expression of the last amendment in force to p: its last value in  *)
(* force.                                                                 *)
LastAmended(p) ==
    LET values == SourceAmendments[MaxOf(AmendmentsInForce(p, as_of))].values
    IN values[MaxOf(InForceAt(values, as_of))].expr

(* Module m amends p and p is declared in a later module only. *)
AmendsAhead(m, p) ==
    /\ \E j \in DOMAIN modules[m].amendments :
          /\ modules[m].amendments[j].target = p
          /\ InForceAt(modules[m].amendments[j].values, as_of) # {}
    /\ \A n \in 1..m : \A k \in DOMAIN modules[n].variables : modules[n].variables[k].path # p
    /\ \E n \in (m + 1)..Len(modules) :
          \E k \in DOMAIN modules[n].variables : modules[n].variables[k].path = p

(* C30: every declaration is resolved before any amendment is looked at.  *)
(* When some declared variable has no value of its own containing T,      *)
(* compile raises 'no value for <path> at <T>' for the first such         *)
(* declaration, whatever the amendments to it; when every declaration has *)
(* one, an amendment to a declared variable is never rejected as unknown, *)
(* wherever its target is declared, and the last one in force supplies    *)
(* the expression.                                                        *)
C30_BaseResolvedBeforeAmendments ==
    (FirstCall /\ ~HasDuplicate) =>
        /\ Lacking # {} =>
              /\ outcome.status = "raised"
              /\ outcome.error = CompileError("no value",
                                              SourceVariables[MinOf(Lacking)].path,
                                              Some(as_of))
        /\ (Lacking = {} /\ \A j \in DOMAIN SourceAmendments :
                               SourceAmendments[j].target \in DeclaredPaths) =>
              /\ outcome.error.kind # "amending unknown variable"
              /\ IRReturned =>
                    \A p \in DeclaredPaths :
                        AmendmentsInForce(p, as_of) # {} => VarOf(p).expr = LastAmended(p)

(* compile has raised 'no value' for a variable that an amendment in      *)
(* force at the date targets.                                             *)
C30_Witness ==
    /\ FirstCall /\ ~HasDuplicate
    /\ outcome.status = "raised"
    /\ outcome.error.kind = "no value"
    /\ AmendmentsInForce(outcome.error.path, as_of) # {}

(* The other case: an amendment in the first module, its target declared  *)
(* in a later one, and the amendment has supplied the expression.         *)
C30_AmendedAhead ==
    /\ FirstCall /\ IRReturned
    /\ \E p \in DeclaredPaths :
          /\ AmendsAhead(1, p)
          /\ VarOf(p).expr = LastAmended(p)
          /\ VarOf(p).expr # DeclOf(p).values[MaxOf(InForceAt(DeclOf(p).values, as_of))].expr

====
